---- MODULE Spec2Model ----
(***************************************************************************)
(* A model of the intersection core of rs_ray_tracer: bounding boxes and   *)
(* the slab test, the primitives' hit functions, the BVH build and         *)
(* traversal, the path integrator and the parallel frame driver.           *)
(*                                                                         *)
(* f64 values are modelled as exact extended rationals <<n, d>>:           *)
(*   d > 0      the finite value n/d (in lowest terms),                    *)
(*   <<1, 0>>   +infinity,  <<-1, 0>>  -infinity,  <<0, 0>>  NaN.          *)
(* Arithmetic and comparisons follow IEEE-754 on these values (a           *)
(* comparison with NaN is false, 0 * inf = NaN, x / 0 = +-inf); rounding   *)
(* and the sign of zero are not modelled.                                  *)
(* Option<T> is modelled as a sequence: <<>> is None, <<x>> is Some(x).    *)
(***************************************************************************)
EXTENDS Integers, Sequences, FiniteSets, TLC

----------------------------------------------------------------------------
(* f64 *)

Sign(n) == IF n > 0 THEN 1 ELSE IF n < 0 THEN -1 ELSE 0

Abs(n) == IF n < 0 THEN -n ELSE n

RECURSIVE Gcd(_, _)
Gcd(a, b) == IF b = 0 THEN a ELSE Gcd(b, a % b)

Norm(n, d) ==
    IF d = 0 THEN <<Sign(n), 0>>
    ELSE LET s == IF d < 0 THEN -1 ELSE 1
             g == Gcd(Abs(n), Abs(d))
         IN  <<(s * n) \div g, (s * d) \div g>>

F(i) == <<i, 1>>

Q(n, d) == Norm(n, d)

PInf == <<1, 0>>

NInf == <<-1, 0>>

NaN == <<0, 0>>

IsNaN(a) == a = NaN

IsFinite(a) == a[2] # 0

FNeg(a) == <<-a[1], a[2]>>

FAdd(a, b) ==
    IF IsNaN(a) \/ IsNaN(b) THEN NaN
    ELSE IF a[2] = 0 /\ b[2] = 0 THEN (IF a = b THEN a ELSE NaN)
    ELSE IF a[2] = 0 THEN a
    ELSE IF b[2] = 0 THEN b
    ELSE Norm(a[1] * b[2] + b[1] * a[2], a[2] * b[2])

FSub(a, b) == FAdd(a, FNeg(b))

FMul(a, b) == Norm(a[1] * b[1], a[2] * b[2])

FRecip(a) == Norm(a[2], a[1])

FDiv(a, b) == FMul(a, FRecip(b))

FLt(a, b) ==
    /\ ~IsNaN(a)
    /\ ~IsNaN(b)
    /\ IF a[2] = 0 /\ b[2] = 0 THEN a[1] < b[1]
       ELSE a[1] * b[2] < b[1] * a[2]

FLe(a, b) == ~IsNaN(a) /\ ~IsNaN(b) /\ (a = b \/ FLt(a, b))

FGt(a, b) == FLt(b, a)

FGe(a, b) == FLe(b, a)

\* f64::MAX, the upper end of the integrator's window: a finite value above
\* every parameter the model's rays and boxes produce.
F64Max == <<1000, 1>>

None == <<>>

Some(x) == <<x>>

IsSome(o) == Len(o) = 1

----------------------------------------------------------------------------
(* Vec3d / Point3d / Ray *)

Vec(x, y, z) == <<x, y, z>>

IVec(x, y, z) == <<F(x), F(y), F(z)>>

GetAxis(v, i) == v[i + 1]

VAdd(a, b) == <<FAdd(a[1], b[1]), FAdd(a[2], b[2]), FAdd(a[3], b[3])>>

VSub(a, b) == <<FSub(a[1], b[1]), FSub(a[2], b[2]), FSub(a[3], b[3])>>

VScale(s, v) == <<FMul(s, v[1]), FMul(s, v[2]), FMul(s, v[3])>>

VDivS(v, s) == <<FDiv(v[1], s), FDiv(v[2], s), FDiv(v[3], s)>>

Dot(a, b) == FAdd(FAdd(FMul(a[1], b[1]), FMul(a[2], b[2])), FMul(a[3], b[3]))

Cross(a, b) ==
    <<FSub(FMul(a[2], b[3]), FMul(a[3], b[2])),
      FSub(FMul(a[3], b[1]), FMul(a[1], b[3])),
      FSub(FMul(a[1], b[2]), FMul(a[2], b[1]))>>

LenSquared(v) == Dot(v, v)

\* Ray::new
RayNew(origin, direction, time) == [origin |-> origin, direction |-> direction, time |-> time]

\* A ray cast at time 0.
Ray(o, d) == RayNew(o, d, F(0))

At(ray, t) == VAdd(ray.origin, VScale(t, ray.direction))

----------------------------------------------------------------------------
(* utilities::min / max, BoundingBox *)

Min(a, b) == IF FLe(a, b) THEN a ELSE b

\* max with its branches exchanged.
MaxSwapped(a, b) == IF FGt(a, b) THEN b ELSE a

Max(a, b) == IF FGt(a, b) THEN a ELSE b

\* BoundingBox::new without the test of the z axis.
BoundingBoxNewNoZ(min, max) ==
    IF FGt(min[1], max[1]) \/ FGt(min[2], max[2])
    THEN None
    ELSE Some([min |-> min, max |-> max, longest_axis |-> 0])

\* BoundingBox::new: None stands for the panic.
BoundingBoxNew(min, max) ==
    IF FGt(min[1], max[1]) \/ FGt(min[2], max[2]) \/ FGt(min[3], max[3])
    THEN None
    ELSE LET len_x == FSub(max[1], min[1])
             len_y == FSub(max[2], min[2])
             len_z == FSub(max[3], min[3])
             longest_axis == IF FGe(len_x, len_y) /\ FGe(len_x, len_z) THEN 0
                             ELSE IF FGe(len_y, len_z) THEN 1
                             ELSE 2
         IN  Some([min |-> min, max |-> max, longest_axis |-> longest_axis])

\* One iteration of the loop of BoundingBox::hit: the window after axis i,
\* with the flag telling whether the loop returned false there.
SlabStep(box, ray, i, w) ==
    LET inv_dir == FDiv(F(1), GetAxis(ray.direction, i))
        ray_origin_i == GetAxis(ray.origin, i)
        lo == FMul(FSub(GetAxis(box.min, i), ray_origin_i), inv_dir)
        hi == FMul(FSub(GetAxis(box.max, i), ray_origin_i), inv_dir)
        t0 == IF FGe(inv_dir, F(0)) THEN lo ELSE hi
        t1 == IF FGe(inv_dir, F(0)) THEN hi ELSE lo
        t_min == IF FGt(t0, w.t_min) THEN t0 ELSE w.t_min
        t_max == IF FLt(t1, w.t_max) THEN t1 ELSE w.t_max
    IN  [t_min |-> t_min, t_max |-> t_max, miss |-> FLe(t_max, t_min)]

BoundingBoxHit(box, ray, t_min, t_max) ==
    LET w0 == SlabStep(box, ray, 0, [t_min |-> t_min, t_max |-> t_max])
        w1 == SlabStep(box, ray, 1, w0)
        w2 == SlabStep(box, ray, 2, w1)
    IN  IF w0.miss THEN FALSE
        ELSE IF w1.miss THEN FALSE
        ELSE IF w2.miss THEN FALSE
        ELSE TRUE

\* utilities::surrounding_box
SurroundingBox(box0, box1) ==
    LET min == Vec(Min(box0.min[1], box1.min[1]),
                   Min(box0.min[2], box1.min[2]),
                   Min(box0.min[3], box1.min[3]))
        max == Vec(Max(box0.max[1], box1.max[1]),
                   Max(box0.max[2], box1.max[2]),
                   Max(box0.max[3], box1.max[3]))
    IN  BoundingBoxNew(min, max)

----------------------------------------------------------------------------
(* f64::sqrt.  The root is exact where it is rational (numerator and        *)
(* denominator perfect squares), +infinity on +infinity and NaN on negative   *)
(* numbers and NaN.  An irrational root is rounded up to the next multiple    *)
(* of 1/SqrtScale: like f64's rounding this is monotone and exact on          *)
(* squares.  The hit functions of spheres are evaluated on exact roots only.  *)

SqrtScale == 10

RECURSIVE ISqrtBetween(_, _, _)
ISqrtBetween(n, lo, hi) ==
    IF hi - lo <= 1 THEN lo
    ELSE LET mid == (lo + hi) \div 2
         IN  IF mid * mid <= n THEN ISqrtBetween(n, mid, hi) ELSE ISqrtBetween(n, lo, mid)

\* The integer part of the square root of n.
ISqrt(n) == IF n <= 0 THEN 0 ELSE ISqrtBetween(n, 0, IF n < 40000 THEN n + 1 ELSE 40000)

IsSquare(n) == ISqrt(n) * ISqrt(n) = n

HasExactSqrt(a) ==
    IF a[2] = 0 THEN TRUE
    ELSE IF a[1] < 0 THEN TRUE
    ELSE IsSquare(a[1]) /\ IsSquare(a[2])

FSqrt(a) ==
    IF IsNaN(a) \/ a[1] < 0 THEN NaN
    ELSE IF a[2] = 0 THEN a
    ELSE IF IsSquare(a[1]) /\ IsSquare(a[2]) THEN <<ISqrt(a[1]), ISqrt(a[2])>>
    ELSE Norm(ISqrt((a[1] * SqrtScale * SqrtScale) \div a[2]) + 1, SqrtScale)

VLen(v) == FSqrt(LenSquared(v))

UnitVector(v) == VDivS(v, VLen(v))

----------------------------------------------------------------------------
(* HitRecord *)

HitRecordNew(point, normal, material, t, u, v, front_face) ==
    [point |-> point, normal |-> normal, material |-> material, t |-> t,
     u |-> u, v |-> v, front_face |-> front_face]

\* The assertions HitRecord::new makes in a debug build.  The bounds on the
\* normal's length, 1 -+ 0.1e-5, are stated on its square.
UVAssertionsHold(hr) ==
    /\ FGe(hr.u, F(0)) /\ FLt(hr.u, F(1))
    /\ FGe(hr.v, F(0)) /\ FLt(hr.v, F(1))

NormalAssertionHolds(hr) ==
    /\ FGe(LenSquared(hr.normal), Q(999998, 1000000))
    /\ FLe(LenSquared(hr.normal), Q(1000002, 1000000))

\* get_face_normal that never turns the normal.
GetFaceNormalUnturned(ray, outward_normal) ==
    [front_face |-> FLt(Dot(ray.direction, outward_normal), F(0)),
     normal |-> outward_normal]

GetFaceNormal(ray, outward_normal) ==
    LET front_face == FLt(Dot(ray.direction, outward_normal), F(0))
    IN  [front_face |-> front_face,
         normal |-> IF front_face THEN outward_normal
                    ELSE VScale(F(-1), outward_normal)]

----------------------------------------------------------------------------
(* Sphere *)

\* get_sphere_uv on the six points of the unit sphere where acos and atan2
\* take the values the function's tests record; elsewhere the angles are not
\* rational multiples of pi and the model does not evaluate the function.
AxisPoints ==
    {IVec(1, 0, 0), IVec(-1, 0, 0), IVec(0, 1, 0), IVec(0, -1, 0), IVec(0, 0, 1),
     IVec(0, 0, -1)}

GetSphereUV(point) ==
    IF point = IVec(1, 0, 0) THEN <<Q(1, 2), Q(1, 2)>>
    ELSE IF point = IVec(-1, 0, 0) THEN <<F(0), Q(1, 2)>>
    ELSE IF point = IVec(0, 1, 0) THEN <<Q(1, 2), F(1)>>
    ELSE IF point = IVec(0, -1, 0) THEN <<Q(1, 2), F(0)>>
    ELSE IF point = IVec(0, 0, 1) THEN <<Q(1, 4), Q(1, 2)>>
    ELSE <<Q(3, 4), Q(1, 2)>>

SphereNew(center, radius, material) ==
    [kind |-> "sphere", center |-> center, radius |-> radius, material |-> material]

SphereDiscriminant(s, ray) ==
    LET oc == VSub(ray.origin, s.center)
        a == LenSquared(ray.direction)
        half_b == Dot(oc, ray.direction)
        c == FSub(LenSquared(oc), FMul(s.radius, s.radius))
    IN  FSub(FMul(half_b, half_b), FMul(a, c))

SphereA(ray) == LenSquared(ray.direction)

SphereHalfB(s, ray) == Dot(VSub(ray.origin, s.center), ray.direction)

\* The nearer root, and the other one.
SphereRoot1(s, ray) ==
    FDiv(FSub(FNeg(SphereHalfB(s, ray)), FSqrt(SphereDiscriminant(s, ray))), SphereA(ray))

SphereRoot2(s, ray) ==
    FDiv(FAdd(FNeg(SphereHalfB(s, ray)), FSqrt(SphereDiscriminant(s, ray))), SphereA(ray))

\* Sphere::hit, the tests on the discriminant and on the two roots.
SelectRoot(discriminant, root1, root2, t_min, t_max) ==
    IF FLt(discriminant, F(0)) THEN None
    ELSE IF FLt(root1, t_min) \/ FGt(root1, t_max)
         THEN IF FLt(root2, t_min) \/ FGt(root2, t_max) THEN None ELSE Some(root2)
         ELSE Some(root1)

\* The root Sphere::hit selects, as Option<f64>.
SphereRoot(s, ray, t_min, t_max) ==
    SelectRoot(SphereDiscriminant(s, ray), SphereRoot1(s, ray), SphereRoot2(s, ray),
               t_min, t_max)

\* Sphere::hit, the record built at the selected root.
SphereRecord(s, ray, t, point, outward_normal) ==
    LET uv == GetSphereUV(outward_normal)
        fn == GetFaceNormal(ray, outward_normal)
    IN  Some(HitRecordNew(point, fn.normal, s.material, t, uv[1], uv[2], fn.front_face))

SphereHitAt(s, ray, root) ==
    IF root = None THEN None
    ELSE SphereRecord(s, ray, root[1], At(ray, root[1]),
                      VDivS(VSub(At(ray, root[1]), s.center), s.radius))

SphereHit(s, ray, t_min, t_max) == SphereHitAt(s, ray, SphereRoot(s, ray, t_min, t_max))

\* The inputs on which the model evaluates Sphere::hit exactly.
RootOnAxis(s, ray, root) ==
    root # None => VDivS(VSub(At(ray, root[1]), s.center), s.radius) \in AxisPoints

SphereExact(s, ray, t_min, t_max) ==
    /\ HasExactSqrt(SphereDiscriminant(s, ray))
    /\ RootOnAxis(s, ray, SphereRoot(s, ray, t_min, t_max))

SphereBox(s) ==
    LET r == Vec(s.radius, s.radius, s.radius)
    IN  BoundingBoxNew(VSub(s.center, r), VAdd(s.center, r))

----------------------------------------------------------------------------
(* Axis-aligned rectangles *)

RectangleNew(kind, a0, a1, b0, b1, k, material) ==
    [kind |-> kind, a0 |-> a0, a1 |-> a1, b0 |-> b0, b1 |-> b1, k |-> k,
     material |-> material]

\* RectangleXY::hit, RectangleXZ::hit and RectangleYZ::hit are the same code
\* up to the axes: n is the axis normal to the plane, a and b the axes of
\* the rectangle's sides (a0..a1, b0..b1).
RectangleHitAxes(r, ray, t_min, t_max, n, a, b) ==
    LET t == FDiv(FSub(r.k, ray.origin[n]), ray.direction[n])
        x == FAdd(ray.origin[a], FMul(t, ray.direction[a]))
        y == FAdd(ray.origin[b], FMul(t, ray.direction[b]))
        u == FDiv(FSub(x, r.a0), FSub(r.a1, r.a0))
        v == FDiv(FSub(y, r.b0), FSub(r.b1, r.b0))
        outward_normal == [i \in 1..3 |-> IF i = n THEN F(1) ELSE F(0)]
        fn == GetFaceNormal(ray, outward_normal)
    IN  IF FLt(t, t_min) \/ FGt(t, t_max) THEN None
        ELSE IF FLt(x, r.a0) \/ FGt(x, r.a1) \/ FLt(y, r.b0) \/ FGt(y, r.b1) THEN None
        ELSE Some(HitRecordNew(At(ray, t), fn.normal, r.material, t, u, v, fn.front_face))

RectangleXYHit(r, ray, t_min, t_max) == RectangleHitAxes(r, ray, t_min, t_max, 3, 1, 2)

RectangleXZHit(r, ray, t_min, t_max) == RectangleHitAxes(r, ray, t_min, t_max, 2, 1, 3)

RectangleYZHit(r, ray, t_min, t_max) == RectangleHitAxes(r, ray, t_min, t_max, 1, 2, 3)

RectangleHit(r, ray, t_min, t_max) ==
    IF r.kind = "xy" THEN RectangleXYHit(r, ray, t_min, t_max)
    ELSE IF r.kind = "xz" THEN RectangleXZHit(r, ray, t_min, t_max)
    ELSE RectangleYZHit(r, ray, t_min, t_max)

\* The padding 0.0001 of a rectangle's box along its normal.
RectPad == Q(1, 10000)

RectangleBox(r) ==
    IF r.kind = "xy"
    THEN BoundingBoxNew(Vec(r.a0, r.b0, FSub(r.k, RectPad)), Vec(r.a1, r.b1, FAdd(r.k, RectPad)))
    ELSE IF r.kind = "xz"
    THEN BoundingBoxNew(Vec(r.a0, FSub(r.k, RectPad), r.b0), Vec(r.a1, FAdd(r.k, RectPad), r.b1))
    ELSE BoundingBoxNew(Vec(FSub(r.k, RectPad), r.a0, r.b0), Vec(FAdd(r.k, RectPad), r.a1, r.b1))

----------------------------------------------------------------------------
(* Triangle *)

TriangleNew(a, b, c, material) ==
    LET e1 == VSub(b, a)
        e2 == VSub(c, a)
    IN  [kind |-> "triangle", a |-> a, b |-> b, c |-> c, e1 |-> e1, e2 |-> e2,
         normal |-> UnitVector(Cross(e1, e2)), material |-> material]

\* f64::EPSILON is 2^-52; the model's threshold is 10^-6.  The determinants of
\* the model's triangles with the grid's rays are integers, which every
\* threshold in (0, 1) separates alike; FaintDirection below is the ray,
\* scaled to this threshold, whose determinant is inside the band.
Epsilon == Q(1, 1000000)

\* moller_trumbore_intersection: the determinant and the parameters u, v, t.
MTDet(ray, triangle) == Dot(triangle.e1, Cross(ray.direction, triangle.e2))

MTU(ray, triangle) ==
    FMul(FDiv(F(1), MTDet(ray, triangle)),
         Dot(VSub(ray.origin, triangle.a), Cross(ray.direction, triangle.e2)))

MTV(ray, triangle) ==
    FMul(FDiv(F(1), MTDet(ray, triangle)),
         Dot(ray.direction, Cross(VSub(ray.origin, triangle.a), triangle.e1)))

MTT(ray, triangle) ==
    FMul(FDiv(F(1), MTDet(ray, triangle)),
         Dot(triangle.e2, Cross(VSub(ray.origin, triangle.a), triangle.e1)))

\* The tests of moller_trumbore_intersection with u + v > 1 weakened to v > 1.
MTTestsLoose(ray, triangle, t_min, t_max, det, u, v, t) ==
    IF FGt(det, FNeg(Epsilon)) /\ FLt(det, Epsilon) THEN None
    ELSE IF FLt(u, F(0)) \/ FGt(u, F(1)) THEN None
    ELSE IF FLt(v, F(0)) \/ FGt(v, F(1)) THEN None
    ELSE IF FLt(t, t_min) \/ FGt(t, t_max) THEN None
    ELSE Some([t |-> t, u |-> u, v |-> v, p |-> At(ray, t), n |-> triangle.normal])

\* The tests of moller_trumbore_intersection, in the code's order, and its
\* result.
MTTests(ray, triangle, t_min, t_max, det, u, v, t) ==
    IF FGt(det, FNeg(Epsilon)) /\ FLt(det, Epsilon) THEN None
    ELSE IF FLt(u, F(0)) \/ FGt(u, F(1)) THEN None
    ELSE IF FLt(v, F(0)) \/ FGt(FAdd(u, v), F(1)) THEN None
    ELSE IF FLt(t, t_min) \/ FGt(t, t_max) THEN None
    ELSE Some([t |-> t, u |-> u, v |-> v, p |-> At(ray, t), n |-> triangle.normal])

MollerTrumbore(ray, triangle, t_min, t_max) ==
    MTTests(ray, triangle, t_min, t_max, MTDet(ray, triangle), MTU(ray, triangle),
            MTV(ray, triangle), MTT(ray, triangle))

\* Triangle::hit, the record built from the intersection.
TriangleRecord(tri, ray, m) ==
    IF m = None THEN None
    ELSE LET fn == GetFaceNormal(ray, m[1].n)
         IN  Some(HitRecordNew(m[1].p, fn.normal, tri.material, m[1].t, m[1].u, m[1].v,
                               fn.front_face))

TriangleHit(tri, ray, t_min, t_max) ==
    TriangleRecord(tri, ray, MollerTrumbore(ray, tri, t_min, t_max))

\* Triangle::bounding_box: an extent narrower than f64::EPSILON is padded by
\* 0.001 on both sides.
TrianglePad == Q(1, 1000)

TriangleExtent(p, q, r) ==
    LET lo == Min(Min(p, q), r)
        hi == Max(Max(p, q), r)
        len == FSub(hi, lo)
    IN  IF FGt(len, FNeg(Epsilon)) /\ FLt(len, Epsilon)
        THEN <<FSub(lo, TrianglePad), FAdd(hi, TrianglePad)>>
        ELSE <<lo, hi>>

TriangleBox(tri) ==
    LET x == TriangleExtent(tri.a[1], tri.b[1], tri.c[1])
        y == TriangleExtent(tri.a[2], tri.b[2], tri.c[2])
        z == TriangleExtent(tri.a[3], tri.b[3], tri.c[3])
    IN  BoundingBoxNew(Vec(x[1], y[1], z[1]), Vec(x[2], y[2], z[2]))

----------------------------------------------------------------------------
(* Hittable: dispatch over the variants, HittableList and Bvh *)

\* utilities::surrounding_box_option.  Its callers fix three of its cases:
\* the folds of Bvh::build_internal and HittableList::build start from None,
\* and a one-item node joins Some(left box) with None.
SurroundingBoxOption(box0, box1) ==
    IF box0 = None THEN box1
    ELSE IF box1 = None THEN box0
    ELSE SurroundingBox(box0[1], box1[1])

\* MovingSphere::new
MovingSphereNew(center0, center1, time0, time1, radius, material) ==
    [kind |-> "moving_sphere", center0 |-> center0, center1 |-> center1, time0 |-> time0,
     time1 |-> time1, radius |-> radius, material |-> material]

\* MovingSphere::center
MovingSphereCenter(s, time) ==
    VAdd(s.center0,
         VScale(FDiv(FSub(time, s.time0), FSub(s.time1, s.time0)), VSub(s.center1, s.center0)))

\* MovingSphere::hit: the code of Sphere::hit about center(ray.time).
MovingSphereHit(s, ray, t_min, t_max) ==
    SphereHit(SphereNew(MovingSphereCenter(s, ray.time), s.radius, s.material),
              ray, t_min, t_max)

\* MovingSphere::bounding_box: the union of the boxes at time0 and at time1.
MovingSphereBox(s, time0, time1) ==
    SurroundingBox(
        SphereBox(SphereNew(MovingSphereCenter(s, time0), s.radius, s.material))[1],
        SphereBox(SphereNew(MovingSphereCenter(s, time1), s.radius, s.material))[1])

\* Hittable::bounding_box(time0, time1).  A HittableList holds the box its
\* build folded (None for a list of no items).
BoundingBoxOf(obj, time0, time1) ==
    IF obj.kind = "sphere" THEN SphereBox(obj)
    ELSE IF obj.kind = "moving_sphere" THEN MovingSphereBox(obj, time0, time1)
    ELSE IF obj.kind = "triangle" THEN TriangleBox(obj)
    ELSE IF obj.kind \in {"bvh", "list"} THEN
        (IF obj.kind = "bvh" THEN Some(obj.bounding_box) ELSE obj.bounding_box)
    ELSE RectangleBox(obj)

\* Bvh::hit with both children: the window's end for the right child, after
\* the left child's result.
ClosestSoFar(hit_left, t_max) == IF hit_left # None THEN hit_left[1].t ELSE t_max

\* Bvh::hit with both children: the record returned.
HitRecordOfTwo(hit_left, hit_right) == IF hit_right # None THEN hit_right ELSE hit_left

\* Hittable::hit, dispatched on the variant.  The arm of a Bvh node is
\* impl Hittable for Bvh: hit.
RECURSIVE Hit(_, _, _, _), ListHitFrom(_, _, _, _, _, _)
Hit(obj, ray, t_min, t_max) ==
    IF obj.kind = "sphere" THEN SphereHit(obj, ray, t_min, t_max)
    ELSE IF obj.kind = "moving_sphere" THEN MovingSphereHit(obj, ray, t_min, t_max)
    ELSE IF obj.kind = "list" THEN ListHitFrom(obj.items, 1, ray, t_min, t_max, None)
    ELSE IF obj.kind = "triangle" THEN TriangleHit(obj, ray, t_min, t_max)
    ELSE IF obj.kind # "bvh" THEN RectangleHit(obj, ray, t_min, t_max)
    ELSE IF ~BoundingBoxHit(obj.bounding_box, ray, t_min, t_max) THEN None
    ELSE IF obj.left = None /\ obj.right = None THEN None
    ELSE IF obj.right = None THEN Hit(obj.left[1], ray, t_min, t_max)
    ELSE IF obj.left = None THEN Hit(obj.right[1], ray, t_min, t_max)
    ELSE HitRecordOfTwo(
             Hit(obj.left[1], ray, t_min, t_max),
             Hit(obj.right[1], ray, t_min,
                 ClosestSoFar(Hit(obj.left[1], ray, t_min, t_max), t_max)))

BvhHit(node, ray, t_min, t_max) == Hit(node, ray, t_min, t_max)

\* The calls of hit that Bvh::hit makes on the children of a node with both
\* children, in order, each with its window.
NodeQueries(bvh, ray, t_min, t_max) ==
    IF ~BoundingBoxHit(bvh.bounding_box, ray, t_min, t_max) THEN <<>>
    ELSE <<[child |-> "left", t_min |-> t_min, t_max |-> t_max],
           [child |-> "right", t_min |-> t_min,
            t_max |-> ClosestSoFar(Hit(bvh.left[1], ray, t_min, t_max), t_max)]>>

\* impl Hittable for HittableList: hit, the loop from item i on.  An item's
\* hit replaces the record and narrows the window, as in a Bvh node.
ListHitFrom(items, i, ray, t_min, closest_so_far, hit_record) ==
    IF i > Len(items) THEN hit_record
    ELSE ListHitFrom(items, i + 1, ray, t_min,
             ClosestSoFar(Hit(items[i], ray, t_min, closest_so_far), closest_so_far),
             HitRecordOfTwo(hit_record, Hit(items[i], ray, t_min, closest_so_far)))

ListHit(items, ray, t_min, t_max) == ListHitFrom(items, 1, ray, t_min, t_max, None)

----------------------------------------------------------------------------
(* Bvh::build *)

\* box_compare: f64::total_cmp of the boxes' minima along the axis, the boxes
\* taken at bounding_box(0.0, 0.0).
\* The order of two keys (f64::total_cmp on numbers that are not NaN).
TotalCmp(ka, kb) == IF FLt(ka, kb) THEN "Less" ELSE IF FGt(ka, kb) THEN "Greater" ELSE "Equal"

\* box_compare with unwrap_or in place of unwrap: an item without a box
\* compares equal to every item.
BoxCompareLenient(a, b, axis) ==
    IF BoundingBoxOf(a, F(0), F(0)) = None \/ BoundingBoxOf(b, F(0), F(0)) = None
    THEN "Equal"
    ELSE TotalCmp(GetAxis(BoundingBoxOf(a, F(0), F(0))[1].min, axis),
                  GetAxis(BoundingBoxOf(b, F(0), F(0))[1].min, axis))

\* box_compare: "Panic" where an unwrap() fails.
BoxCompare(a, b, axis) ==
    IF BoundingBoxOf(a, F(0), F(0)) = None \/ BoundingBoxOf(b, F(0), F(0)) = None
    THEN "Panic"
    ELSE TotalCmp(GetAxis(BoundingBoxOf(a, F(0), F(0))[1].min, axis),
                  GetAxis(BoundingBoxOf(b, F(0), F(0))[1].min, axis))

\* items.sort_by(compare_fn) panics: sorting two items or more compares
\* every item with another one, and a comparison with an item that has no
\* box panics.
SortPanics(items, axis) ==
    \E i, j \in 1..Len(items) : i # j /\ BoxCompare(items[i], items[j], axis) = "Panic"

\* Vec::sort_by(compare_fn): a stable sort.
RECURSIVE InsertSorted(_, _, _)
InsertSorted(sorted, x, axis) ==
    IF sorted = <<>> THEN <<x>>
    ELSE IF BoxCompare(sorted[Len(sorted)], x, axis) = "Greater"
         THEN Append(InsertSorted(SubSeq(sorted, 1, Len(sorted) - 1), x, axis),
                     sorted[Len(sorted)])
         ELSE Append(sorted, x)

RECURSIVE SortBy(_, _)
SortBy(items, axis) ==
    IF items = <<>> THEN <<>>
    ELSE InsertSorted(SortBy(SubSeq(items, 1, Len(items) - 1), axis), items[Len(items)], axis)

\* The fold of build_internal over the items' boxes.
RECURSIVE ItemsBoundingBox(_, _, _)
ItemsBoundingBox(items, time0, time1) ==
    IF items = <<>> THEN None
    ELSE SurroundingBoxOption(
             ItemsBoundingBox(SubSeq(items, 1, Len(items) - 1), time0, time1),
             BoundingBoxOf(items[Len(items)], time0, time1))

FMin(a, b) == IF b < a THEN b ELSE a

FMax(a, b) == IF b > a THEN b ELSE a

\* left.as_ref().and_then(|x| x.bounding_box(time0, time1))
ChildBox(child, time0, time1) ==
    IF child = None THEN None ELSE BoundingBoxOf(child[1], time0, time1)

\* The metrics a match arm of build_internal reports for an item stored at
\* the current depth.
LeafMetrics(current_depth) ==
    [min_depth |-> current_depth, max_depth |-> current_depth,
     average_depth |-> F(current_depth)]

\* The tail of build_internal: the node's box and metrics from the two
\* children and their metrics.  None where the code panics.
NodeOf(left, lm, right, rm, num_objects, bounding_box) ==
    IF bounding_box = None THEN None
    ELSE Some([bvh |-> [kind |-> "bvh", left |-> left, right |-> right,
                        bounding_box |-> bounding_box[1]],
               metrics |-> [num_objects |-> num_objects,
                            min_depth |-> FMin(lm.min_depth, rm.min_depth),
                            max_depth |-> FMax(lm.max_depth, rm.max_depth),
                            average_depth |->
                                FDiv(FAdd(lm.average_depth, rm.average_depth), F(2))]])

\* The tail of build_internal taking the left child's box as the node's box.
MakeNodeLeftBox(time0, time1, left, lm, right, rm, num_objects) ==
    NodeOf(left, lm, right, rm, num_objects, ChildBox(left, time0, time1))

MakeNode(time0, time1, left, lm, right, rm, num_objects) ==
    NodeOf(left, lm, right, rm, num_objects,
           SurroundingBoxOption(ChildBox(left, time0, time1), ChildBox(right, time0, time1)))

\* The arm for two items.
BuildTwo(time0, time1, items, axis, current_depth) ==
    IF BoxCompare(items[1], items[2], axis) = "Panic" THEN None
    ELSE IF BoxCompare(items[1], items[2], axis) \in {"Less", "Equal"}
    THEN MakeNode(time0, time1, Some(items[1]), LeafMetrics(current_depth),
                  Some(items[2]), LeafMetrics(current_depth), 2)
    ELSE MakeNode(time0, time1, Some(items[2]), LeafMetrics(current_depth),
                  Some(items[1]), LeafMetrics(current_depth), 2)

\* The arm for three items and more, after the two recursive calls.
JoinHalves(time0, time1, sub0, sub1, num_objects) ==
    IF sub0 = None \/ sub1 = None THEN None
    ELSE MakeNode(time0, time1, Some(sub0[1].bvh), sub0[1].metrics,
                  Some(sub1[1].bvh), sub1[1].metrics, num_objects)

\* let mid = num_objects / 2, off by one.
MidOffByOne(num_objects) == (num_objects \div 2) - 1

\* The split after the first item of the order.
MidOne(num_objects) == 1

\* let mid = num_objects / 2
Mid(num_objects) == num_objects \div 2

\* half0 = items after split_off(mid): the first mid items of the sorted list.
Half0(items, axis) == SubSeq(SortBy(items, axis), 1, Mid(Len(items)))

\* half1 without the last item of the order.
Half1Short(items, axis) == SubSeq(SortBy(items, axis), Mid(Len(items)) + 1, Len(items) - 1)

\* half1 = items.split_off(mid): the sorted list from index mid on.
Half1(items, axis) == SubSeq(SortBy(items, axis), Mid(Len(items)) + 1, Len(items))

\* Bvh::build_internal: Some([bvh, metrics]), or None for a panic.
\* BuildArms is the match on the number of items, given the fold of the
\* items' boxes.
RECURSIVE BuildInternal(_, _, _, _), BuildArms(_, _, _, _, _)
BuildInternal(time0, time1, items, depth) ==
    BuildArms(time0, time1, items, ItemsBoundingBox(items, time0, time1), depth)

BuildArms(time0, time1, items, items_bounding_box, depth) ==
    IF items_bounding_box = None THEN None
    ELSE IF Len(items) = 0 THEN None
    ELSE IF Len(items) = 1
    THEN MakeNode(time0, time1, Some(items[1]), LeafMetrics(depth + 1),
                  None, LeafMetrics(depth + 1), 1)
    ELSE IF Len(items) = 2
    THEN BuildTwo(time0, time1, items, items_bounding_box[1].longest_axis, depth + 1)
    ELSE IF SortPanics(items, items_bounding_box[1].longest_axis) THEN None
    ELSE JoinHalves(time0, time1,
             BuildInternal(time0, time1,
                 Half0(items, items_bounding_box[1].longest_axis), depth + 1),
             BuildInternal(time0, time1,
                 Half1(items, items_bounding_box[1].longest_axis), depth + 1),
             Len(items))

\* The item lists build_internal is called with during build_internal on
\* `items`, this call included.  The call on half1 is made if the call on
\* half0 has returned.
\* HalvesCalled is the set of the halves build_internal recurses on.
HalvesCalled(time0, time1, items_half_0, items_half_1) ==
    IF BuildInternal(time0, time1, items_half_0, 1) = None THEN {items_half_0}
    ELSE {items_half_0, items_half_1}

SplitCalls(time0, time1, items, items_bounding_box) ==
    IF items_bounding_box = None \/ Len(items) <= 2 THEN {}
    ELSE IF SortPanics(items, items_bounding_box[1].longest_axis) THEN {}
    ELSE HalvesCalled(time0, time1,
                      Half0(items, items_bounding_box[1].longest_axis),
                      Half1(items, items_bounding_box[1].longest_axis))

RECURSIVE BuildInternalCalls(_, _, _)
BuildInternalCalls(time0, time1, items) ==
    {items} \cup UNION {BuildInternalCalls(time0, time1, half) :
                           half \in SplitCalls(time0, time1, items,
                                               ItemsBoundingBox(items, time0, time1))}

\* HittableList::build
HittableListBuild(time0, time1, items) ==
    [kind |-> "list", time0 |-> time0, time1 |-> time1, items |-> items,
     bounding_box |-> ItemsBoundingBox(items, time0, time1)]

BvhBuild(time0, time1, items) == BuildInternal(time0, time1, items, 0)

----------------------------------------------------------------------------
(* RGB, materials, Camera *)

RGB(r, g, b) == <<r, g, b>>

Black == RGB(F(0), F(0), F(0))

\* Add for RGB, Mul for RGB, Mul<RGB> for f64
CAdd(a, b) == <<FAdd(a[1], b[1]), FAdd(a[2], b[2]), FAdd(a[3], b[3])>>

CMul(a, b) == <<FMul(a[1], b[1]), FMul(a[2], b[2]), FMul(a[3], b[3])>>

CScale(k, c) == <<FMul(k, c[1]), FMul(k, c[2]), FMul(k, c[3])>>

Lambertian(albedo) == [kind |-> "lambertian", albedo |-> albedo]

Metal(albedo, fuzz) == [kind |-> "metal", albedo |-> albedo, fuzz |-> fuzz]

DiffuseLight(emit) == [kind |-> "diffuse_light", emit |-> emit]

\* The threshold 1e-8 of Vec3d::near_zero: the vectors the model adds have
\* components that are zero or far above it.
NearZeroThreshold == Q(1, 1000000)

FAbs(a) == <<Abs(a[1]), a[2]>>

NearZero(v) ==
    /\ FLt(FAbs(v[1]), NearZeroThreshold)
    /\ FLt(FAbs(v[2]), NearZeroThreshold)
    /\ FLt(FAbs(v[3]), NearZeroThreshold)

\* utilities::reflect_vec
ReflectVec(vec_in, normal) ==
    VSub(vec_in, VScale(FMul(F(2), Dot(vec_in, normal)), normal))

\* Lambertian::scatter; random is the value random_unit_vec() returned.
LambertianScatter(material, ray_in, hr, random) ==
    Some([ray |-> Ray(hr.point,
                      IF NearZero(VAdd(hr.normal, random)) THEN hr.normal
                      ELSE VAdd(hr.normal, random)),
          attenuation |-> material.albedo])

\* Metal::scatter, from the reflected direction.
MetalScatterAlong(material, hr, reflected_direction) ==
    IF FGt(Dot(reflected_direction, hr.normal), F(0))
    THEN Some([ray |-> Ray(hr.point, reflected_direction), attenuation |-> material.albedo])
    ELSE None

\* Metal::scatter; random is the value random_vec_in_unit_sphere() returned.
MetalScatter(material, ray_in, hr, random) ==
    MetalScatterAlong(material, hr,
        VAdd(ReflectVec(UnitVector(ray_in.direction), hr.normal),
             VScale(material.fuzz, random)))

\* Material::scatter: None, or Some([ray, attenuation]).
Scatter(material, ray_in, hr, random) ==
    IF material.kind = "lambertian" THEN LambertianScatter(material, ray_in, hr, random)
    ELSE IF material.kind = "metal" THEN MetalScatter(material, ray_in, hr, random)
    ELSE None

\* Material::emitted: black unless the material overrides it.
Emitted(material, u, v, p) ==
    IF material.kind = "diffuse_light" THEN material.emit ELSE Black

\* Camera::get_ray; random_disc is the value random_vec_in_unit_disc() returned.
GetRayOffset(camera, rd) == VAdd(VScale(rd[1], camera.u), VScale(rd[2], camera.v))

GetRay(camera, s, t, random_disc) ==
    Ray(VAdd(camera.origin, GetRayOffset(camera, VScale(camera.lens_radius, random_disc))),
        VSub(VSub(VAdd(VAdd(camera.lower_left_corner, VScale(s, camera.horizontal)),
                       VScale(t, camera.vertical)),
                  camera.origin),
             GetRayOffset(camera, VScale(camera.lens_radius, random_disc))))

----------------------------------------------------------------------------
(* render::ray_colour *)

\* The values the model draws for random_unit_vec() and for
\* random_vec_in_unit_sphere().
RandomVecs == {IVec(0, 1, 0), IVec(0, -1, 0), IVec(0, 0, -1)}

\* The sky: a blend of white and blue on the height of the ray's direction.
SkyBlend(t) ==
    CAdd(CScale(FSub(F(1), t), RGB(F(1), F(1), F(1))),
         CScale(t, RGB(Q(1, 2), Q(7, 10), F(1))))

SkyColour(ray) ==
    SkyBlend(FMul(Q(1, 2), FAdd(UnitVector(ray.direction)[2], F(1))))

\* The arm of a miss.
Background(ray, use_sky_background) ==
    IF use_sky_background THEN SkyColour(ray) ELSE Black

\* An outcome of ray_colour that made no recursive call: the colour
\* returned and the number of bvh.hit calls made.
Outcome(colour, queries) == [colour |-> colour, queries |-> queries, path |-> <<>>]

\* The recursive call of ray_colour: its arguments and the colour it returned.
NestedCall(ray, max_depth, use_sky_background, colour) ==
    [ray |-> ray, max_depth |-> max_depth, use_sky_background |-> use_sky_background,
     colour |-> colour]

\* emitted + hit_colour * (the recursive call's result), after one query.
\* `path` lists the nested recursive calls, the outermost first.
Attenuated(emitted, hit_colour, ray_out, max_depth, use_sky_background, outcomes) ==
    {[colour |-> CAdd(emitted, CMul(hit_colour, o.colour)),
      queries |-> o.queries + 1,
      path |-> <<NestedCall(ray_out, max_depth, use_sky_background, o.colour)>> \o o.path] :
        o \in outcomes}

\* ray_colour: the set of its outcomes over the random draws of the
\* materials' scatter.
RECURSIVE RayColour(_, _, _, _)

\* The arm of a hit that returns black where the material does not scatter
\* and leaves the emitted term out where it does.
RayColourOnHitNoEmission(ray, bvh, max_depth, use_sky_background, hr, sc) ==
    IF sc = None
    THEN {Outcome(Black, 1)}
    ELSE Attenuated(Black, sc[1].attenuation,
                    sc[1].ray, max_depth - 1, use_sky_background,
                    RayColour(sc[1].ray, bvh, max_depth - 1, use_sky_background))

\* The arm of a hit with record hr; sc is what the material's scatter
\* returned.
RayColourOnHit(ray, bvh, max_depth, use_sky_background, hr, sc) ==
    IF sc = None
    THEN {Outcome(Emitted(hr.material, hr.u, hr.v, hr.point), 1)}
    ELSE Attenuated(Emitted(hr.material, hr.u, hr.v, hr.point), sc[1].attenuation,
                    sc[1].ray, max_depth - 1, use_sky_background,
                    RayColour(sc[1].ray, bvh, max_depth - 1, use_sky_background))

RayColourAfterQuery(ray, bvh, max_depth, use_sky_background, hit) ==
    IF hit = None
    THEN {Outcome(Background(ray, use_sky_background), 1)}
    ELSE UNION {RayColourOnHit(ray, bvh, max_depth, use_sky_background, hit[1],
                               Scatter(hit[1].material, ray, hit[1], random)) :
                  random \in RandomVecs}

\* ray_colour with the cutoff test max_depth < 0.
RayColourLateCutoff(ray, bvh, max_depth, use_sky_background) ==
    IF max_depth < 0 THEN {Outcome(Black, 0)}
    ELSE RayColourAfterQuery(ray, bvh, max_depth, use_sky_background,
                             Hit(bvh, ray, Q(1, 1000), F64Max))

RayColour(ray, bvh, max_depth, use_sky_background) ==
    IF max_depth <= 0 THEN {Outcome(Black, 0)}
    ELSE RayColourAfterQuery(ray, bvh, max_depth, use_sky_background,
                             Hit(bvh, ray, Q(1, 1000), F64Max))

----------------------------------------------------------------------------
(* State *)

VARIABLES
    cur,        \* Option<BoundingBox>: the box value the program holds
    fault,      \* TRUE once a constructor has panicked (the program aborted)
    lastNew,    \* Option: the arguments of the last BoundingBox::new call
    sb,         \* Option: the operands and results of the last surrounding_box calls
    slab,       \* Option: the slab test's inputs and its result
    prim,       \* Option: a primitive's hit call, its inputs and its result
    scene,      \* Option: the item list handed to Bvh::build
    tree,       \* Option: what Bvh::build returned, [bvh, metrics]
    query,      \* Option: a ray query on the tree and on the list, with both results
    rc,         \* Option: a ray_colour call, its inputs and its result
    res,        \* Option: the arguments of the running render_scene call
    pixels,     \* render_scene's work list, a sequence of <<i, j>>
    task,       \* per work-list index: the pixel task's position and its colour
    progress,   \* the row numbers report_progress was called with, in call order
    world,      \* Option: the camera and the tree render_scene borrows (&Camera, &Bvh)
    image,      \* Option: the Vec<RGB> render_scene returned
    built,      \* Option: a Bvh::build call, its arguments, result and recursive calls
    node,       \* Option: a ray cast on a tree of two items, with the children's answers
    call        \* Option: a call of one of the other functions, with its result

boxVars == <<cur, fault, lastNew, sb>>

slabVars == <<slab>>

primVars == <<prim>>

bvhVars == <<scene, tree, query>>

colourVars == <<rc>>

renderVars == <<res, pixels, task, progress, world, image>>

buildVars == <<built>>

nodeVars == <<node>>

callVars == <<call>>

vars == <<boxVars, slabVars, primVars, bvhVars, colourVars, renderVars, buildVars, nodeVars, callVars>>

notBox == <<slabVars, primVars, bvhVars, colourVars, renderVars, buildVars, nodeVars, callVars>>

notSlab == <<boxVars, primVars, bvhVars, colourVars, renderVars, buildVars, nodeVars, callVars>>

notPrim == <<boxVars, slabVars, bvhVars, colourVars, renderVars, buildVars, nodeVars, callVars>>

notBvh == <<boxVars, slabVars, primVars, colourVars, renderVars, buildVars, nodeVars, callVars>>

notColour == <<boxVars, slabVars, primVars, bvhVars, renderVars, buildVars, nodeVars, callVars>>

notRender == <<boxVars, slabVars, primVars, bvhVars, colourVars, buildVars, nodeVars, callVars>>

notBuild == <<boxVars, slabVars, primVars, bvhVars, colourVars, renderVars, nodeVars, callVars>>

notNode == <<boxVars, slabVars, primVars, bvhVars, colourVars, renderVars, buildVars, callVars>>

notCall == <<boxVars, slabVars, primVars, bvhVars, colourVars, renderVars, buildVars, nodeVars>>

\* Before anything has run.
Init ==
    /\ cur = None /\ fault = FALSE /\ lastNew = None /\ sb = None
    /\ slab = None
    /\ prim = None
    /\ scene = None /\ tree = None /\ query = None
    /\ rc = None
    /\ res = None /\ pixels = <<>> /\ task = <<>> /\ progress = <<>> /\ image = None
    /\ world = None
    /\ built = None
    /\ node = None
    /\ call = None

----------------------------------------------------------------------------
(* Bounding boxes: construction and union *)

\* Coordinates of the model's points are the integers 0..MaxCoord.
MaxCoord == 2

Coords == 0..MaxCoord

Points == {IVec(x, y, z) : x \in Coords, y \in Coords, z \in Coords}

InRange(box) ==
    \A i \in 1..3 : FGe(box.min[i], F(0)) /\ FLe(box.max[i], F(MaxCoord))

CornerPoints ==
    {IVec(0, 0, 0), IVec(MaxCoord, 0, 1), IVec(1, MaxCoord, 0),
     IVec(MaxCoord, MaxCoord, MaxCoord)}

\* The boxes surrounding_box is applied to, besides the one held.
OperandBoxes ==
    {b[1] : b \in {BoundingBoxNew(p, q) : p \in CornerPoints, q \in CornerPoints} \ {None}}

\* A call of BoundingBox::new(min, max): the box, or the panic.
Construct(min, max) ==
    LET r == BoundingBoxNew(min, max)
    IN  /\ lastNew' = Some([min |-> min, max |-> max])
        /\ IF r = None
           THEN /\ fault' = TRUE
                /\ cur' = None
           ELSE /\ InRange(r[1])
                /\ fault' = FALSE
                /\ cur' = r

NewBox ==
    /\ ~fault
    /\ cur = None
    /\ \E min \in Points, max \in Points : Construct(min, max)
    /\ sb' = None
    /\ UNCHANGED notBox

Radii == {-1, 0, 1}

\* Sphere::bounding_box
SphereBoundingBox ==
    /\ ~fault
    /\ cur = None
    /\ \E center \in Points, radius \in Radii :
         LET r == IVec(radius, radius, radius)
         IN  Construct(VSub(center, r), VAdd(center, r))
    /\ sb' = None
    /\ UNCHANGED notBox

Offsets == {IVec(1, 0, 0), IVec(0, -1, 0), IVec(-1, 1, 1)}

\* Translate::bounding_box
TranslateBoundingBox ==
    /\ ~fault
    /\ cur # None
    /\ sb = None
    /\ \E offset \in Offsets :
         Construct(VAdd(cur[1].min, offset), VAdd(cur[1].max, offset))
    /\ sb' = sb
    /\ UNCHANGED notBox

Factors == {-1, 1, 2}

VScale3(v, x, y, z) == <<FMul(v[1], x), FMul(v[2], y), FMul(v[3], z)>>

\* Scale::bounding_box
ScaleBoundingBox ==
    /\ ~fault
    /\ cur # None
    /\ sb = None
    /\ \E x \in Factors, y \in Factors, z \in Factors :
         Construct(VScale3(cur[1].min, F(x), F(y), F(z)),
                   VScale3(cur[1].max, F(x), F(y), F(z)))
    /\ sb' = sb
    /\ UNCHANGED notBox

\* surrounding_box applied to the held box a and two more boxes b, c, in the
\* groupings the algebraic laws compare; the program keeps a U b.
Surround ==
    /\ ~fault
    /\ cur # None
    /\ sb = None
    /\ \E b \in OperandBoxes, c \in OperandBoxes :
         LET a == cur[1]
             ab == SurroundingBox(a, b)
             ba == SurroundingBox(b, a)
             bc == SurroundingBox(b, c)
             aa == SurroundingBox(a, a)
         IN  /\ ab # None /\ bc # None
             /\ sb' = Some([a |-> a, b |-> b, c |-> c, ab |-> ab, ba |-> ba, aa |-> aa,
                            ab_c |-> SurroundingBox(ab[1], c),
                            a_bc |-> SurroundingBox(a, bc[1])])
             /\ cur' = ab
             /\ fault' = (ab = None)
             /\ lastNew' = None
    /\ UNCHANGED notBox

NextBox ==
    \/ NewBox
    \/ SphereBoundingBox
    \/ TranslateBoundingBox
    \/ ScaleBoundingBox
    \/ Surround

SpecBox == Init /\ [][NextBox]_vars

BoxValid(b) == \A i \in 1..3 : FLe(b.min[i], b.max[i])

Exceeds(min, max) == \E i \in 1..3 : FGt(min[i], max[i])

SbResults == IF sb = None THEN {}
             ELSE {sb[1].ab, sb[1].ba, sb[1].aa, sb[1].ab_c, sb[1].a_bc} \ {None}

\* C3: BoundingBox::new panics whenever min exceeds max on some axis, and
\* every box that exists (constructed directly, by a primitive's or an
\* instance wrapper's bounding_box, or by surrounding_box) has min <= max on
\* all three axes.
C3_BoxesValid ==
    /\ cur # None => BoxValid(cur[1])
    /\ \A r \in SbResults : BoxValid(r[1])
    /\ (lastNew # None /\ Exceeds(lastNew[1].min, lastNew[1].max)) => (fault /\ cur = None)

\* A constructor call with min above max on an axis has panicked.
C3_Witness ==
    /\ fault
    /\ lastNew # None
    /\ FGt(lastNew[1].min[3], lastNew[1].max[3])
    /\ FLe(lastNew[1].min[1], lastNew[1].max[1])

Contains(outer, inner) ==
    \A i \in 1..3 : FLe(outer.min[i], inner.min[i]) /\ FGe(outer.max[i], inner.max[i])

\* C4: surrounding_box is commutative, associative and idempotent, and its
\* result contains both operands.
C4_SurroundingBoxLaws ==
    sb # None =>
        LET r == sb[1]
        IN  /\ r.ab = r.ba
            /\ r.ab_c = r.a_bc
            /\ r.aa = Some(r.a)
            /\ r.ab # None
            /\ Contains(r.ab[1], r.a)
            /\ Contains(r.ab[1], r.b)

\* surrounding_box was applied to boxes none of which contains another.
C4_Witness ==
    /\ sb # None
    /\ sb[1].ab # None
    /\ sb[1].ab[1] \notin {sb[1].a, sb[1].b}
    /\ sb[1].ab_c # None
    /\ sb[1].ab_c # sb[1].ab
    /\ sb[1].ab_c[1] # sb[1].c

----------------------------------------------------------------------------
(* The slab test *)

SlabBoxes ==
    {BoundingBoxNew(IVec(0, 0, 0), IVec(MaxCoord, MaxCoord, MaxCoord))[1],
     BoundingBoxNew(IVec(1, 1, 1), IVec(MaxCoord, MaxCoord, MaxCoord))[1],
     BoundingBoxNew(IVec(0, 1, 0), IVec(1, MaxCoord, MaxCoord))[1]}

\* Ray origins lie on the grid one unit around the boxes; directions have
\* components in -1..1 and are not the zero vector.
RayCoords == -1..(MaxCoord + 1)

Origins == {IVec(x, y, z) : x \in RayCoords, y \in RayCoords, z \in RayCoords}

Directions == {IVec(x, y, z) : x \in -1..1, y \in -1..1, z \in -1..1} \ {IVec(0, 0, 0)}

\* Windows [t_min, t_max]: the integrator's [0.001, f64::MAX], the tests'
\* [0, f64::MAX], and narrowed windows as a BVH node passes to its children.
Windows ==
    {<<Q(1, 1000), F64Max>>, <<F(0), F64Max>>, <<F(0), F(1)>>, <<F(1), F(2)>>,
     <<Q(1, 1000), F(3)>>}

SlabTest ==
    /\ slab = None
    /\ \E box \in SlabBoxes, o \in Origins, d \in Directions, w \in Windows :
         slab' = Some([box |-> box, ray |-> Ray(o, d), t_min |-> w[1], t_max |-> w[2],
                       result |-> BoundingBoxHit(box, Ray(o, d), w[1], w[2])])
    /\ UNCHANGED notSlab

NextSlab == SlabTest

SpecSlab == Init /\ [][NextSlab]_vars

PointInBox(p, box) ==
    \A i \in 1..3 : FLe(box.min[i], p[i]) /\ FLe(p[i], box.max[i])

\* The parameters at which the segment can enter or leave the box: the ends
\* of the window and the crossings of the six face planes.
Crossings(box, ray, t_min, t_max) ==
    {t_min, t_max} \cup
    UNION {{FDiv(FSub(box.min[i], ray.origin[i]), ray.direction[i]),
            FDiv(FSub(box.max[i], ray.origin[i]), ray.direction[i])} :
           i \in {j \in 1..3 : ray.direction[j] # F(0)}}

\* The segment {origin + t * direction : t_min <= t <= t_max} meets the closed
\* box: being an interval of t, the intersection is non-empty iff it holds
\* one of the crossings.
SegmentMeetsBox(box, ray, t_min, t_max) ==
    \E t \in Crossings(box, ray, t_min, t_max) :
        FLe(t_min, t) /\ FLe(t, t_max) /\ PointInBox(At(ray, t), box)

\* C2: BoundingBox::hit returns true iff the ray's segment over the window
\* has a non-empty intersection with the box.
C2_SlabIffIntersects ==
    slab # None =>
        (slab[1].result <=>
            SegmentMeetsBox(slab[1].box, slab[1].ray, slab[1].t_min, slab[1].t_max))

----------------------------------------------------------------------------
(* The primitives' hit functions *)

\* The rays of the primitives' hit calls: origins on the grid -1..MaxCoord
\* and the origins of the triangle tests and of the sphere scenario.
PrimCoords == -1..MaxCoord

PrimOrigins ==
    {IVec(x, y, z) : x \in PrimCoords, y \in PrimCoords, z \in PrimCoords} \cup
    {IVec(0, 0, -5), IVec(0, 0, 5), IVec(2, 2, -5), IVec(-5, 0, 0), IVec(0, 1, -5)}

PrimWindows == {<<Q(1, 1000), F64Max>>, <<F(0), F64Max>>, <<F(1), F(2)>>}

Spheres ==
    {SphereNew(IVec(0, 0, 0), Q(1, 2), "m1"), SphereNew(IVec(0, 0, 0), F(1), "m1"),
     SphereNew(IVec(1, 1, 0), F(1), "m2")}

Rectangles ==
    {RectangleNew("xy", F(0), F(2), F(0), F(1), F(1), "m1"),
     RectangleNew("xz", F(0), F(1), F(0), F(2), F(0), "m2"),
     RectangleNew("yz", F(-1), F(1), F(0), F(2), F(1), "m1")}

TestTriangle == TriangleNew(IVec(-1, -1, 0), IVec(1, -1, 0), IVec(0, 1, 0), "m1")

Triangles ==
    {TestTriangle,
     TriangleNew(IVec(1, 0, 0), IVec(1, 2, 0), IVec(1, 0, 2), "m2"),
     TriangleNew(IVec(0, 0, 0), IVec(2, 0, 0), IVec(0, 4, -3), "m1")}

Call(obj, ray, w, mt, hit) ==
    Some([kind |-> obj.kind, obj |-> obj, ray |-> ray, t_min |-> w[1], t_max |-> w[2],
          mt |-> mt, hit |-> hit])

SphereHitCall ==
    /\ prim = None
    /\ \E s \in Spheres, o \in PrimOrigins, d \in Directions, w \in PrimWindows :
         /\ SphereExact(s, Ray(o, d), w[1], w[2])
         /\ prim' = Call(s, Ray(o, d), w, None, SphereHit(s, Ray(o, d), w[1], w[2]))
    /\ UNCHANGED notPrim

RectangleHitCall ==
    /\ prim = None
    /\ \E r \in Rectangles, o \in PrimOrigins, d \in Directions, w \in PrimWindows :
         prim' = Call(r, Ray(o, d), w, None, RectangleHit(r, Ray(o, d), w[1], w[2]))
    /\ UNCHANGED notPrim

\* A ray whose direction is so short that its determinant with each of the
\* model's triangles lies inside (-Epsilon, Epsilon) without being zero, as a
\* direction of length 10^-17 does against f64::EPSILON; its origins, and
\* windows of which the first holds the parameter where its line crosses the
\* triangle's plane.
FaintDirection == Vec(F(0), F(0), Q(1, 10000000))

FaintOrigins == {IVec(0, 0, -5), IVec(0, 0, 5), IVec(2, 2, -5)}

FaintWindows == {<<F(0), F(100000000)>>, <<F(0), F(1)>>}

TriangleRays ==
    (PrimOrigins \X Directions \X PrimWindows) \cup
    (FaintOrigins \X {FaintDirection} \X FaintWindows)

TriangleHitCall ==
    /\ prim = None
    /\ \E tri \in Triangles, in \in TriangleRays :
         prim' = Call(tri, Ray(in[1], in[2]), in[3],
                      MollerTrumbore(Ray(in[1], in[2]), tri, in[3][1], in[3][2]),
                      TriangleHit(tri, Ray(in[1], in[2]), in[3][1], in[3][2]))
    /\ UNCHANGED notPrim

NextPrim ==
    \/ SphereHitCall
    \/ RectangleHitCall
    \/ TriangleHitCall

SpecPrim == Init /\ [][NextPrim]_vars

\* C5: every HitRecord a primitive's hit returns has 0 <= u < 1 and
\* 0 <= v < 1 (the assertions of HitRecord::new hold).
C5_UVInRange ==
    (prim # None /\ prim[1].hit # None) => UVAssertionsHold(prim[1].hit[1])

\* The sphere scenario: centre (0,0,0), radius 0.5, ray from (0,0,0) towards
\* (0,0,-1), over a window that holds t = 0.5.
SphereScenario ==
    /\ prim # None
    /\ prim[1].obj = SphereNew(IVec(0, 0, 0), Q(1, 2), "m1")
    /\ prim[1].ray = Ray(IVec(0, 0, 0), IVec(0, 0, -1))
    /\ FLe(prim[1].t_min, Q(1, 2))
    /\ FGe(prim[1].t_max, Q(1, 2))

\* C6 as claimed: the scenario reports t = 0.5, point (0,0,-0.5), normal
\* (0,0,-1) and front_face = false.
C6_SphereScenarioAsClaimed ==
    SphereScenario =>
        /\ prim[1].hit # None
        /\ prim[1].hit[1].t = Q(1, 2)
        /\ prim[1].hit[1].point = Vec(F(0), F(0), Q(-1, 2))
        /\ prim[1].hit[1].normal = IVec(0, 0, -1)
        /\ prim[1].hit[1].front_face = FALSE

\* C6 amended: the scenario reports t = 0.5, point (0,0,-0.5) and
\* front_face = false, and the recorded normal is (0,0,1): the outward
\* normal (0,0,-1) turned against the ray, which comes from inside.
C6_SphereScenario ==
    SphereScenario =>
        /\ prim[1].hit # None
        /\ prim[1].hit[1].t = Q(1, 2)
        /\ prim[1].hit[1].point = Vec(F(0), F(0), Q(-1, 2))
        /\ prim[1].hit[1].normal = IVec(0, 0, 1)
        /\ prim[1].hit[1].front_face = FALSE

\* The scenario's hit call has been made, over the integrator's window.
C6_Witness ==
    /\ SphereScenario
    /\ prim[1].t_min = Q(1, 1000)
    /\ prim[1].hit # None

\* The line of the ray meets the closed triangle in exactly one point, at a
\* parameter inside the window: the ray is not parallel to the plane, the
\* plane is crossed at t* = n.(a - o) / n.d, and the crossing point lies on
\* the inner side of each of the three edges.
LineMeetsTriangle(tri, ray, t_min, t_max) ==
    LET n == Cross(VSub(tri.b, tri.a), VSub(tri.c, tri.a))
        nd == Dot(n, ray.direction)
        tstar == FDiv(Dot(n, VSub(tri.a, ray.origin)), nd)
        P == At(ray, tstar)
        Inner(p, q) == FGe(Dot(Cross(VSub(q, p), VSub(P, p)), n), F(0))
    IN  IF nd = F(0) THEN FALSE
        ELSE /\ FLe(t_min, tstar)
             /\ FLe(tstar, t_max)
             /\ Inner(tri.a, tri.b)
             /\ Inner(tri.b, tri.c)
             /\ Inner(tri.c, tri.a)

TriangleScenario ==
    /\ prim # None
    /\ prim[1].obj = TestTriangle
    /\ prim[1].ray = Ray(IVec(0, 0, -5), IVec(0, 0, 1))
    /\ FLe(prim[1].t_min, F(5))
    /\ FGe(prim[1].t_max, F(5))

\* What the call reports agrees with the crossing of the line and the
\* triangle: p = origin + t * direction = a + u * (b - a) + v * (c - a) with
\* u >= 0, v >= 0, u + v <= 1 and t in the window; and the test scenario gives
\* t = 5, u = 0.25, v = 0.5 and p = (0,0,0).
TriangleResultExact(c) ==
    /\ c.mt # None =>
         LET m == c.mt[1]
         IN  /\ m.p = At(c.ray, m.t)
             /\ m.p = VAdd(c.obj.a, VAdd(VScale(m.u, VSub(c.obj.b, c.obj.a)),
                                          VScale(m.v, VSub(c.obj.c, c.obj.a))))
             /\ FGe(m.u, F(0)) /\ FGe(m.v, F(0)) /\ FLe(FAdd(m.u, m.v), F(1))
             /\ FLe(c.t_min, m.t) /\ FLe(m.t, c.t_max)
    /\ TriangleScenario =>
         /\ c.mt # None
         /\ c.mt[1].t = F(5)
         /\ c.mt[1].u = Q(1, 4)
         /\ c.mt[1].v = Q(1, 2)
         /\ c.mt[1].p = IVec(0, 0, 0)

\* The determinant e1 . (direction x e2) is at least f64::EPSILON in size.
DetOutsideBand(tri, ray) ==
    ~(FGt(MTDet(ray, tri), FNeg(Epsilon)) /\ FLt(MTDet(ray, tri), Epsilon))

C7_WitnessMiss ==
    /\ prim # None
    /\ prim[1].kind = "triangle"
    /\ prim[1].mt = None
    /\ Dot(prim[1].obj.normal, prim[1].ray.direction) # F(0)

\* A faint ray whose line crosses the triangle inside the window has been
\* answered None.
C7_WitnessFaint ==
    /\ prim # None
    /\ prim[1].kind = "triangle"
    /\ prim[1].mt = None
    /\ ~DetOutsideBand(prim[1].obj, prim[1].ray)
    /\ LineMeetsTriangle(prim[1].obj, prim[1].ray, prim[1].t_min, prim[1].t_max)

----------------------------------------------------------------------------
(* Bvh::build and Bvh::hit against HittableList::hit *)

\* The longest item list handed to Bvh::build.
MaxItems == 3

SlantedTriangle == TriangleNew(IVec(0, 0, 0), IVec(2, 0, 0), IVec(0, 4, -3), "m1")

BvhItems ==
    {SphereNew(IVec(0, 0, 0), F(1), "m1"),
     SphereNew(IVec(1, 1, 0), F(1), "m2"),
     RectangleNew("xy", F(0), F(2), F(0), F(1), F(1), "m1"),
     RectangleNew("yz", F(-1), F(1), F(0), F(2), F(1), "m2"),
     SlantedTriangle}

Scenes == UNION {[1..n -> BvhItems] : n \in 1..MaxItems}

BvhOrigins == {IVec(x, y, z) : x \in {-1, 0}, y \in {0, 1, 3}, z \in {-3, 0, 3}}

BvhDirections ==
    {IVec(0, 0, 1), IVec(0, 0, -1), IVec(1, 1, 0), IVec(1, 0, 0), IVec(0, -1, 0),
     IVec(1, 0, -1)}

\* The integrator's window and a bounded one.
BvhWindows == {<<Q(1, 1000), F64Max>>, <<F(0), F(3)>>}

\* The rays on which the model evaluates a sphere's hit exactly under every
\* window: both roots are rational and meet the sphere on an axis.
SphereExactAll(s, ray) ==
    LET disc == SphereDiscriminant(s, ray)
    IN  /\ HasExactSqrt(disc)
        /\ FGe(disc, F(0)) =>
               LET a == LenSquared(ray.direction)
                   half_b == Dot(VSub(ray.origin, s.center), ray.direction)
                   r1 == FDiv(FSub(FNeg(half_b), FSqrt(disc)), a)
                   r2 == FDiv(FAdd(FNeg(half_b), FSqrt(disc)), a)
               IN  \A r \in {r1, r2} :
                       VDivS(VSub(At(ray, r), s.center), s.radius) \in AxisPoints

SceneExact(items, ray) ==
    \A i \in 1..Len(items) : items[i].kind = "sphere" => SphereExactAll(items[i], ray)

\* main: Bvh::build(time0, time1, items) over the scene's items.
Build ==
    /\ scene = None
    /\ \E items \in Scenes :
         /\ scene' = Some(items)
         /\ tree' = BvhBuild(F(0), F(1), items)
    /\ UNCHANGED <<query, notBvh>>

\* One ray cast against the tree and against the list of the same items.
Query ==
    /\ tree # None
    /\ query = None
    /\ \E o \in BvhOrigins, d \in BvhDirections, w \in BvhWindows :
         /\ SceneExact(scene[1], Ray(o, d))
         /\ query' = Some([ray |-> Ray(o, d), t_min |-> w[1], t_max |-> w[2],
                           bvh_hit |-> Hit(tree[1].bvh, Ray(o, d), w[1], w[2]),
                           list_hit |-> ListHit(scene[1], Ray(o, d), w[1], w[2])])
    /\ UNCHANGED <<scene, tree, notBvh>>

NextBvh ==
    \/ Build
    \/ Query

SpecBvh == Init /\ [][NextBvh]_vars

\* The t of every item's own hit on the query's ray and window.
ItemHitTs ==
    {Hit(scene[1][i], query[1].ray, query[1].t_min, query[1].t_max)[1].t :
        i \in {k \in 1..Len(scene[1]) :
                 Hit(scene[1][k], query[1].ray, query[1].t_min, query[1].t_max) # None}}

\* C1: Bvh::hit returns a hit exactly when HittableList::hit over the same
\* items does, and the hit's t is the least t among the items' own hits.
C1_BvhEqualsLinearScan ==
    query # None =>
        /\ (query[1].bvh_hit # None) <=> (query[1].list_hit # None)
        /\ query[1].bvh_hit # None =>
               /\ query[1].bvh_hit[1].t \in ItemHitTs
               /\ \A t \in ItemHitTs : FLe(query[1].bvh_hit[1].t, t)

\* What does hold: a hit the tree reports is the hit of one of the items,
\* and the list finds a hit that is no farther.
BvhHitIsAnItemHit ==
    (query # None /\ query[1].bvh_hit # None) =>
        /\ query[1].bvh_hit[1].t \in ItemHitTs
        /\ query[1].list_hit # None
        /\ FLe(query[1].list_hit[1].t, query[1].bvh_hit[1].t)

----------------------------------------------------------------------------
(* ray_colour on a built scene *)

\* The largest max_depth handed to ray_colour.
MaxDepth == 2

Grey == RGB(Q(1, 2), Q(1, 2), Q(1, 2))

\* A matte floor (y = 0), a light on the back wall (z = -2) and a mirror
\* triangle.
ColourItems ==
    <<RectangleNew("xz", F(-2), F(2), F(-2), F(2), F(0), Lambertian(Grey)),
      RectangleNew("xy", F(-2), F(2), F(0), F(2), F(-2),
                   DiffuseLight(RGB(F(4), F(4), F(4)))),
      TriangleNew(IVec(1, 0, 0), IVec(1, 2, 0), IVec(1, 0, 2),
                  Metal(RGB(F(1), Q(1, 2), F(0)), F(0)))>>

ColourBvh == BvhBuild(F(0), F(1), ColourItems)[1].bvh

ColourOrigins == {IVec(0, 1, 0), IVec(0, 1, 2), IVec(-1, 1, 1), IVec(0, 2, 1)}

ColourDirections ==
    {IVec(0, -1, 0), IVec(0, 1, 0), IVec(0, 0, -1), IVec(1, 0, 0), IVec(0, -1, -1),
     IVec(0, 3, 4), IVec(0, -3, 4), IVec(1, -1, 0), IVec(-2, 2, -1), IVec(2, -2, -1)}

\* One call of ray_colour, with one of its outcomes.
RayColourCall ==
    /\ rc = None
    /\ \E o \in ColourOrigins, d \in ColourDirections, max_depth \in 0..MaxDepth,
          use_sky_background \in BOOLEAN :
         \E out \in RayColour(Ray(o, d), ColourBvh, max_depth, use_sky_background) :
            rc' = Some([ray |-> Ray(o, d), max_depth |-> max_depth,
                        use_sky_background |-> use_sky_background,
                        colour |-> out.colour, queries |-> out.queries,
                        path |-> out.path])
    /\ UNCHANGED notColour

NextColour == RayColourCall

SpecColour == Init /\ [][NextColour]_vars

\* C8: ray_colour with max_depth = 0 returns black and makes no query of the
\* scene, whatever the ray and the background mode.
C8_DepthZeroIsBlack ==
    (rc # None /\ rc[1].max_depth = 0) =>
        (rc[1].colour = Black /\ rc[1].queries = 0)

\* A call with max_depth = 0 under the sky background, on a ray that meets
\* the scene.
C8_Witness ==
    /\ rc # None
    /\ rc[1].max_depth = 0
    /\ rc[1].use_sky_background
    /\ Hit(ColourBvh, rc[1].ray, Q(1, 1000), F64Max) # None

\* The hit ray_colour gets for the call's ray over [0.001, f64::MAX].
RcHit == Hit(ColourBvh, rc[1].ray, Q(1, 1000), F64Max)

RcEmitted == Emitted(RcHit[1].material, RcHit[1].u, RcHit[1].v, RcHit[1].point)

\* The call's result is as claimed where scatter returned sc.
ResultOnScatter(sc) ==
    IF sc = None
    THEN rc[1].colour = RcEmitted /\ rc[1].path = <<>>
    ELSE /\ Len(rc[1].path) >= 1
         /\ rc[1].path[1].ray = sc[1].ray
         /\ rc[1].path[1].max_depth = rc[1].max_depth - 1
         /\ rc[1].path[1].use_sky_background = rc[1].use_sky_background
         /\ rc[1].path[1].colour \in
               {o.colour : o \in RayColour(sc[1].ray, ColourBvh, rc[1].max_depth - 1,
                                           rc[1].use_sky_background)}
         /\ rc[1].colour = CAdd(RcEmitted, CMul(sc[1].attenuation, rc[1].path[1].colour))

\* C22: on a hit over [0.001, +infinity) the result is the emitted colour
\* if the material's scatter returns None, and otherwise emitted +
\* attenuation * ray_colour(scattered ray, depth - 1, same background),
\* component-wise.
C22_ResultOnHit ==
    (rc # None /\ rc[1].max_depth >= 1 /\ RcHit # None) =>
        \E random \in RandomVecs :
            ResultOnScatter(Scatter(RcHit[1].material, rc[1].ray, RcHit[1], random))

\* A call whose hit scattered into a ray that gathered light.
C22_Witness ==
    /\ rc # None
    /\ rc[1].max_depth = 2
    /\ RcHit # None
    /\ Len(rc[1].path) = 1
    /\ rc[1].path[1].colour # Black
    /\ rc[1].colour # Black

\* C23: ray_colour ends after at most max_depth queries of the scene and at
\* most max_depth nested recursive calls, each with a smaller max_depth than
\* the one before, for materials that always scatter too.
C23_BoundedPath ==
    rc # None =>
        /\ rc[1].queries <= rc[1].max_depth
        /\ Len(rc[1].path) <= rc[1].max_depth
        /\ \A n \in 1..Len(rc[1].path) : rc[1].path[n].max_depth = rc[1].max_depth - n

\* A call with max_depth = 2 made two queries and two nested calls: its ray
\* and the scattered ray both hit a material that scatters.
C23_Witness ==
    /\ rc # None
    /\ rc[1].max_depth = 2
    /\ rc[1].queries = 2
    /\ Len(rc[1].path) = 2
    /\ rc[1].path[2].max_depth = 0

----------------------------------------------------------------------------
(* render_scene: the work list and the parallel pixel tasks *)

\* Images have at most MaxPixels pixels and MaxSamples samples per pixel.
MaxPixels == 4

MaxSamples == 2

\* The camera Camera::new builds for look_from (0,1,2), look_at (0,1,1),
\* view_up (0,1,0), a viewport of 4 x 4 at focus distance 1, aperture 0.
RenderCamera ==
    [origin |-> IVec(0, 1, 2), lower_left_corner |-> IVec(-2, -1, 1),
     horizontal |-> IVec(4, 0, 0), vertical |-> IVec(0, 4, 0),
     u |-> IVec(1, 0, 0), v |-> IVec(0, 1, 0), lens_radius |-> F(0)]

\* The values the model draws for random() and random_vec_in_unit_disc().
Jitters == {F(0), Q(1, 2)}

RandomDisc == Vec(Q(1, 2), F(0), F(0))

\* The inner loop of the work list: the pixels (i, j) for i = from..width-1.
RECURSIVE RowFrom(_, _, _)
RowFrom(i, j, image_width) ==
    IF i >= image_width THEN <<>> ELSE <<<<i, j>>>> \o RowFrom(i + 1, j, image_width)

\* The work list with the rows in ascending order of j.
RECURSIVE RowsUpFrom(_, _, _)
RowsUpFrom(j, image_width, image_height) ==
    IF j >= image_height THEN <<>>
    ELSE RowFrom(0, j, image_width) \o RowsUpFrom(j + 1, image_width, image_height)

PixelListAscending(image_width, image_height) == RowsUpFrom(0, image_width, image_height)

\* The outer loop, for j in (0..image_height).rev(): the rows j, j-1, .., 0.
RECURSIVE RowsDownFrom(_, _)
RowsDownFrom(j, image_width) ==
    IF j < 0 THEN <<>> ELSE RowFrom(0, j, image_width) \o RowsDownFrom(j - 1, image_width)

PixelList(image_width, image_height) == RowsDownFrom(image_height - 1, image_width)

\* The camera coordinate of a pixel index under a draw of random().
CameraCoord(index, jitter, extent) == FDiv(FAdd(F(index), jitter), F(extent - 1))

\* The colours one sample of a pixel can yield.
SampleColours(pixel, r) ==
    UNION {{out.colour :
              out \in RayColour(GetRay(RenderCamera,
                                       CameraCoord(pixel[1], ju, r.image_width),
                                       CameraCoord(pixel[2], jv, r.image_height),
                                       RandomDisc),
                                ColourBvh, r.max_depth, r.use_sky_background)} :
           ju \in Jitters, jv \in Jitters}

\* The sums the sample loop can reach after n samples.
RECURSIVE PixelSums(_, _, _)
PixelSums(pixel, r, n) ==
    IF n = 0 THEN {Black}
    ELSE {CAdd(c, sample) : c \in PixelSums(pixel, r, n - 1),
                            sample \in SampleColours(pixel, r)}

\* The resolutions and background modes of the model's render_scene calls.
Resolutions ==
    {r \in [image_width : 1..MaxPixels, image_height : 1..MaxPixels,
            num_samples : 1..MaxSamples, max_depth : 1..MaxDepth,
            use_sky_background : BOOLEAN] :
        r.image_width * r.image_height <= MaxPixels}

\* The calls and their pixels.
ClosureInputs ==
    {x \in Resolutions \X (0..(MaxPixels - 1)) \X (0..(MaxPixels - 1)) :
        x[2] < x[1].image_width /\ x[3] < x[1].image_height}

\* For every call and pixel, the values the closure's sample loop can end on
\* (the tabulated PixelSums).
ClosureTable ==
    {[r |-> x[1], pixel |-> <<x[2], x[3]>>,
      sums |-> PixelSums(<<x[2], x[3]>>, x[1], x[1].num_samples)] : x \in ClosureInputs}

ClosureResults(r, pixel) ==
    (CHOOSE e \in ClosureTable : e.r = r /\ e.pixel = pixel).sums

\* The closure's report without the column test: every pixel reports its row.
ReportProgressEveryPixel(reported, pixel, image_width) == Append(reported, pixel[2])

\* The closure's report with the column test off by one: no pixel has column
\* image_width, so no row is ever reported.
ReportProgressOffByOne(reported, pixel, image_width) ==
    IF pixel[1] = image_width THEN Append(reported, pixel[2]) ELSE reported

\* The end of the closure: report_progress(pixel.1) is called if the pixel is
\* in the last column.  `reported` is the sequence of the callback's
\* arguments so far.
ReportProgress(reported, pixel, image_width) ==
    IF pixel[1] = image_width - 1 THEN Append(reported, pixel[2]) ELSE reported

\* The closure's value kept in a place the later closures share: the colour
\* reaches the slots of the entries at and after k.
ClosureYieldShared(tasks, k, colour) ==
    [n \in 1..Len(tasks) |->
        IF n = k THEN [tasks[n] EXCEPT !.pc = "done", !.colour = colour]
        ELSE IF n > k THEN [tasks[n] EXCEPT !.colour = colour]
        ELSE tasks[n]]

\* The closure of entry k yields its colour: the value map() keeps for entry
\* k.  The closure owns `colour` and borrows everything else immutably.
ClosureYield(tasks, k, colour) ==
    [tasks EXCEPT ![k].pc = "done", ![k].colour = colour]

\* render_scene is called: the work list is built and every pixel task waits
\* for a worker.
RenderStart ==
    /\ res = None
    /\ \E r \in Resolutions :
         /\ res' = Some(r)
         /\ pixels' = PixelList(r.image_width, r.image_height)
         /\ task' = [k \in 1..(r.image_width * r.image_height) |->
                        [pc |-> "waiting",
                         pixel |-> PixelList(r.image_width, r.image_height)[k],
                         colour |-> Black]]
         /\ world' = Some([camera |-> RenderCamera, bvh |-> ColourBvh])
    /\ UNCHANGED <<progress, image, notRender>>

\* A worker takes the closure of work-list entry k.
TaskStart(k) ==
    /\ image = None
    /\ task[k].pc = "waiting"
    /\ task' = [task EXCEPT ![k].pc = "running"]
    /\ UNCHANGED <<res, pixels, progress, world, image, notRender>>

\* The closure of entry k runs its sample loop, reports the row if its pixel
\* is the last of the row, and yields its colour.
TaskComplete(k) ==
    /\ task[k].pc = "running"
    /\ \E colour \in ClosureResults(res[1], task[k].pixel) :
         task' = ClosureYield(task, k, colour)
    /\ progress' = ReportProgress(progress, task[k].pixel, res[1].image_width)
    /\ UNCHANGED <<res, pixels, world, image, notRender>>

\* collect(): every closure has yielded; entry k of the vector is the value
\* of the closure of work-list entry k.
RenderReturn ==
    /\ res # None
    /\ image = None
    /\ \A k \in 1..Len(task) : task[k].pc = "done"
    /\ image' = Some([k \in 1..Len(task) |-> task[k].colour])
    /\ UNCHANGED <<res, pixels, task, progress, world, notRender>>

NextRender ==
    \/ RenderStart
    \/ \E k \in 1..Len(task) : TaskStart(k)
    \/ \E k \in 1..Len(task) : TaskComplete(k)
    \/ RenderReturn

SpecRender == Init /\ [][NextRender]_vars

NonNegative(colour) == \A i \in 1..3 : FGe(colour[i], F(0))

\* C9: every colour ray_colour returns, and every per-pixel sum that
\* render_scene returns, has its three channels >= 0 (the materials'
\* attenuation and emission being non-negative).
C9_ChannelsNonNegative ==
    /\ rc # None => NonNegative(rc[1].colour)
    /\ image # None => \A k \in 1..Len(image[1]) : NonNegative(image[1][k])

\* What does hold: the channels are >= 0 for images at least two pixels
\* wide and high.
NonNegativeFromTwoByTwo ==
    (image # None /\ res[1].image_width >= 2 /\ res[1].image_height >= 2) =>
        \A k \in 1..Len(image[1]) : NonNegative(image[1][k])

\* Entry k (from 1) of a row-major list of rows image_height-1 down to 0.
RowMajorPixel(k, image_width, image_height) ==
    <<(k - 1) % image_width, image_height - 1 - ((k - 1) \div image_width)>>

\* C10: the vector render_scene returns has image_width * image_height
\* entries, and entry k is the colour accumulated for the k-th pixel of the
\* row-major work list, whatever the order the tasks started and completed in.
C10_ResultOrder ==
    image # None =>
        /\ Len(image[1]) = res[1].image_width * res[1].image_height
        /\ Len(pixels) = Len(image[1])
        /\ \A k \in 1..Len(image[1]) :
              /\ pixels[k] = RowMajorPixel(k, res[1].image_width, res[1].image_height)
              /\ task[k].pixel = pixels[k]
              /\ task[k].pc = "done"
              /\ image[1][k] = task[k].colour
        /\ \A k1, k2 \in 1..Len(pixels) : pixels[k1] = pixels[k2] => k1 = k2

\* A returned image of two rows and two columns whose tasks completed out of
\* list order (row 0, last in the list, reported first) and whose rows
\* differ in colour.
C10_Witness ==
    /\ image # None
    /\ res[1].image_width = 2
    /\ res[1].image_height = 2
    /\ progress = <<0, 1>>
    /\ image[1][1] # image[1][3]

\* C11: when render_scene has returned, the progress callback has been
\* invoked with every row j of 0..image_height-1 at least once, whatever the
\* order the pixel tasks ran in (image_width >= 1).
C11_EveryRowReported ==
    image # None =>
        \A j \in 0..(res[1].image_height - 1) :
            \E n \in 1..Len(progress) : progress[n] = j

\* A render of two rows of two pixels has returned.
C11_Witness ==
    /\ image # None
    /\ res[1].image_width = 2
    /\ res[1].image_height = 2
    /\ Len(progress) = 2

\* C12 as claimed: the row numbers passed to the progress callback never
\* decrease from one invocation to the next.
C12_RowsNeverDecrease ==
    \A n \in 1..(Len(progress) - 1) : progress[n] <= progress[n + 1]

\* C12 amended: within one render_scene call every row number passed to the
\* progress callback is a row of the image and no row number is passed twice
\* (the order is the order in which the last-column pixels complete).
C12_RowsReportedOnce ==
    /\ \A n \in 1..Len(progress) :
          res # None /\ progress[n] \in 0..(res[1].image_height - 1)
    /\ \A n1, n2 \in 1..Len(progress) : progress[n1] = progress[n2] => n1 = n2

\* The callback has been invoked for three rows, a lower row after a higher.
C12_Witness ==
    /\ Len(progress) = 3
    /\ progress[1] > progress[2]

C17_ReportedRowsComplete ==
    \A n \in 1..Len(progress) :
        \A k \in 1..Len(task) :
            task[k].pixel[2] = progress[n] => task[k].pc = "done"

\* The axis normal to an axis-aligned rectangle's plane.
NormalAxis(r) == IF r.kind = "xy" THEN 3 ELSE IF r.kind = "xz" THEN 2 ELSE 1

\* The hit call's ray is parallel to the plane of its rectangle or triangle.
ParallelCall ==
    /\ prim # None
    /\ IF prim[1].kind = "triangle"
       THEN Dot(Cross(prim[1].obj.e1, prim[1].obj.e2), prim[1].ray.direction) = F(0)
       ELSE /\ prim[1].kind \in {"xy", "xz", "yz"}
            /\ prim[1].ray.direction[NormalAxis(prim[1].obj)] = F(0)

\* C15: a ray parallel to the plane of a rectangle or a triangle, a ray
\* inside the plane included, makes hit return None: no hit record, and no
\* failed assertion of HitRecord::new.
C15_ParallelIsNone ==
    ParallelCall => prim[1].hit = None

\* What does hold: a parallel ray outside the primitive's plane gets None,
\* and so does every parallel ray on a triangle.
ParallelOffPlaneIsNone ==
    (/\ ParallelCall
     /\ prim[1].kind # "triangle" =>
            prim[1].ray.origin[NormalAxis(prim[1].obj)] # prim[1].obj.k)
    => prim[1].hit = None

----------------------------------------------------------------------------
(* Bvh::build: panics, the split and the keys *)

\* A sphere moving from (0,0,0) at time 0 to (-2,0,0) at time 1.
SlidingSphere == MovingSphereNew(IVec(0, 0, 0), IVec(-2, 0, 0), F(0), F(1), F(1), "m1")

\* A HittableList of no items: it reports no bounding box.
EmptyList == HittableListBuild(F(0), F(1), <<>>)

\* The items of the model's build calls.
BuildItems ==
    {SphereNew(IVec(-1, 0, 0), F(1), "m1"),
     SphereNew(IVec(1, 1, 0), F(1), "m2"),
     RectangleNew("xy", F(0), F(2), F(0), F(1), F(1), "m1"),
     SlantedTriangle,
     SlidingSphere,
     EmptyList}

\* The item lists: none, one, .. MaxItems items.
BuildScenes == UNION {[1..n -> BuildItems] : n \in 0..MaxItems}

\* The build intervals [time0, time1].
BuildTimes == {<<F(0), F(1)>>, <<F(0), F(0)>>}

\* Bvh::build on every scene and interval: its arguments, its result and
\* the lists build_internal was called with.
BuildTable ==
    {[time0 |-> tm[1], time1 |-> tm[2], items |-> items,
      result |-> BvhBuild(tm[1], tm[2], items),
      calls |-> BuildInternalCalls(tm[1], tm[2], items)] :
        items \in BuildScenes, tm \in BuildTimes}

\* Bvh::build(time0, time1, items) is called.
BuildCall ==
    /\ built = None
    /\ \E e \in BuildTable : built' = Some(e)
    /\ UNCHANGED notBuild

NextBuild == BuildCall

SpecBuild == Init /\ [][NextBuild]_vars

\* C13: Bvh::build over no items panics, and a build over one item or more
\* never calls build_internal on an empty list.
C13_EmptyListOnlyAtTop ==
    built # None =>
        /\ built[1].items = <<>> => built[1].result = None
        /\ built[1].items # <<>> => <<>> \notin built[1].calls

\* A build over three items has split them and returned a tree.
C13_Witness ==
    /\ built # None
    /\ Len(built[1].items) = 3
    /\ built[1].result # None
    /\ Cardinality(built[1].calls) = 3

\* Some item of the build call reports no bounding box over the interval.
HasBoxlessItem ==
    \E i \in 1..Len(built[1].items) :
        BoundingBoxOf(built[1].items[i], built[1].time0, built[1].time1) = None

\* C14: Bvh::build panics whenever an item of the list reports no bounding
\* box, for every list length and every position of the item; it returns
\* no tree that holds such an item.
C14_BoxlessItemPanics ==
    (built # None /\ HasBoxlessItem) => built[1].result = None

\* A build over three items of which only the second has no box has panicked.
C14_Witness ==
    /\ built # None
    /\ Len(built[1].items) = 3
    /\ built[1].items[2] = EmptyList
    /\ built[1].items[1] # EmptyList
    /\ built[1].items[3] # EmptyList
    /\ built[1].result = None

\* The items stored under a child of a node, left to right.
RECURSIVE ItemsUnder(_)
ItemsUnder(child) ==
    IF child = None THEN <<>>
    ELSE IF child[1].kind = "bvh"
    THEN ItemsUnder(child[1].left) \o ItemsUnder(child[1].right)
    ELSE <<child[1]>>

\* The axis of the root's split and an item's key over an interval: the
\* minimum of its box along the axis.
SplitAxis == ItemsBoundingBox(built[1].items, built[1].time0, built[1].time1)[1].longest_axis

KeyOver(item, time0, time1) == GetAxis(BoundingBoxOf(item, time0, time1)[1].min, SplitAxis)

\* The split of the root for keys taken over [time0, time1]: the left child
\* holds n/2 items, the right child the others, and no key on the left
\* exceeds a key on the right.
SplitByKeysOver(time0, time1) ==
    LET n == Len(built[1].items)
        left == ItemsUnder(built[1].result[1].bvh.left)
        right == ItemsUnder(built[1].result[1].bvh.right)
    IN  /\ Len(left) = n \div 2
        /\ Len(right) = n - (n \div 2)
        /\ \A x \in BuildItems :
              Cardinality({i \in 1..n : built[1].items[i] = x}) =
              Cardinality({i \in 1..Len(left) : left[i] = x})
              + Cardinality({i \in 1..Len(right) : right[i] = x})
        /\ \A i \in 1..Len(left), j \in 1..Len(right) :
              FLe(KeyOver(left[i], time0, time1), KeyOver(right[j], time0, time1))

\* A build over two items or more has returned a tree.
BuiltSplit ==
    /\ built # None
    /\ built[1].result # None
    /\ Len(built[1].items) >= 2

\* C19: for n >= 2 items the left child holds the first n/2 items in the
\* order of the keys and the right child the others, so every key under the
\* left child is <= every key under the right child; the key is the minimum
\* of the item's bounding box (over the build interval) along the axis.
C19_SplitByKey ==
    BuiltSplit => SplitByKeysOver(built[1].time0, built[1].time1)

\* What does hold: the split is by the keys box_compare takes, the minima of
\* the boxes at bounding_box(0.0, 0.0).
SplitByKeyAtZero ==
    BuiltSplit => SplitByKeysOver(F(0), F(0))

\* C20: the key that orders two items is the minimum, along the split axis,
\* of the boxes the union box was folded from: bounding_box(time0, time1).
C20_KeysOverBuildInterval ==
    BuiltSplit =>
        \A i, j \in 1..Len(built[1].items) :
            BoxCompare(built[1].items[i], built[1].items[j], SplitAxis) =
            TotalCmp(KeyOver(built[1].items[i], built[1].time0, built[1].time1),
                     KeyOver(built[1].items[j], built[1].time0, built[1].time1))

----------------------------------------------------------------------------
(* Bvh::hit on a node with two children *)

\* The items of the two-item trees.
NodeItems ==
    {SphereNew(IVec(0, 0, 0), F(1), "m1"),
     SphereNew(IVec(1, 1, 0), F(1), "m2"),
     RectangleNew("xy", F(0), F(2), F(0), F(1), F(1), "m1"),
     SlantedTriangle}

\* Ray origins, the plane z = 1 of the rectangle among them.
NodeOrigins == {IVec(x, y, z) : x \in {-1, 0, 1}, y \in {0, 1}, z \in {-3, 0, 1, 3}}

\* The trees Bvh::build makes of two items.
NodeTrees == {BvhBuild(F(0), F(1), <<a, b>>)[1].bvh : a \in NodeItems, b \in NodeItems}

\* A ray is cast on the tree Bvh::build makes of two items; the calls the
\* node makes on its children are kept with the result.
NodeQuery ==
    /\ node = None
    /\ \E bvh \in NodeTrees, o \in NodeOrigins, d \in BvhDirections, w \in BvhWindows :
         /\ SceneExact(<<bvh.left[1], bvh.right[1]>>, Ray(o, d))
         /\ node' = Some([bvh |-> bvh, ray |-> Ray(o, d), t_min |-> w[1], t_max |-> w[2],
                          result |-> BvhHit(bvh, Ray(o, d), w[1], w[2]),
                          queries |-> NodeQueries(bvh, Ray(o, d), w[1], w[2])])
    /\ UNCHANGED notNode

NextNode == NodeQuery

SpecNode == Init /\ [][NextNode]_vars

\* The answer of a child of the node to the n-th call the node made.
ChildAnswer(n) ==
    Hit(IF node[1].queries[n].child = "left" THEN node[1].bvh.left[1]
        ELSE node[1].bvh.right[1],
        node[1].ray, node[1].queries[n].t_min, node[1].queries[n].t_max)

\* The node returns the nearer of the two children's answers, the only
\* answer if one child hits, None if neither does.
NearerAnswerReturned ==
    IF ChildAnswer(1) # None /\ ChildAnswer(2) # None
    THEN /\ node[1].result \in {ChildAnswer(1), ChildAnswer(2)}
         /\ FLe(node[1].result[1].t, ChildAnswer(1)[1].t)
         /\ FLe(node[1].result[1].t, ChildAnswer(2)[1].t)
    ELSE IF ChildAnswer(1) # None THEN node[1].result = ChildAnswer(1)
    ELSE node[1].result = ChildAnswer(2)

\* The node's box is hit by the cast ray.
NodeBoxHit ==
    /\ node # None
    /\ BoundingBoxHit(node[1].bvh.bounding_box, node[1].ray, node[1].t_min, node[1].t_max)

\* C18: when the node's box is hit and both children exist, the left child
\* is queried over [t_min, t_max], the right child is queried as well, with
\* t_max narrowed to the left hit's t if the left child hit, and the node
\* returns the hit with the smaller t of the two, the only hit if one child
\* hits, None if neither does.
C18_TraversalResult ==
    NodeBoxHit =>
        /\ Len(node[1].queries) = 2
        /\ node[1].queries[1] =
              [child |-> "left", t_min |-> node[1].t_min, t_max |-> node[1].t_max]
        /\ node[1].queries[2] =
              [child |-> "right", t_min |-> node[1].t_min,
               t_max |-> IF ChildAnswer(1) # None THEN ChildAnswer(1)[1].t
                         ELSE node[1].t_max]
        /\ NearerAnswerReturned

\* What does hold: the same, for rays on which no child answers with a hit
\* whose t is NaN.
TraversalResultWithoutNaN ==
    (/\ NodeBoxHit
     /\ \A n \in 1..2 : ChildAnswer(n) # None => ~IsNaN(ChildAnswer(n)[1].t))
    => C18_TraversalResult

----------------------------------------------------------------------------
(* Bvh::build: the tree it returns *)

\* The nodes of the tree under a child, the child included if it is a node.
RECURSIVE NodesUnder(_)
NodesUnder(child) ==
    IF child = None THEN {}
    ELSE IF child[1].kind = "bvh"
    THEN {child[1]} \cup NodesUnder(child[1].left) \cup NodesUnder(child[1].right)
    ELSE {}

\* A build over one item or more has returned a tree.
BuiltTree == built # None /\ built[1].result # None

BuiltNodes == NodesUnder(Some(built[1].result[1].bvh))

\* Box `outer` contains box `inner`.
BoxContains(outer, inner) ==
    \A axis \in 0..2 :
        /\ FLe(GetAxis(outer.min, axis), GetAxis(inner.min, axis))
        /\ FGe(GetAxis(outer.max, axis), GetAxis(inner.max, axis))

\* C21: after Bvh::build every node's box is the surrounding box of its
\* present children's boxes, hence the union of the boxes (over the build
\* interval) of the items of its subtree, each of which it contains; the box
\* of a single-item node is that item's box.
C21_NodeBounds ==
    BuiltTree =>
        \A nd \in BuiltNodes :
            /\ Some(nd.bounding_box) =
                  SurroundingBoxOption(ChildBox(nd.left, built[1].time0, built[1].time1),
                                       ChildBox(nd.right, built[1].time0, built[1].time1))
            /\ Some(nd.bounding_box) =
                  ItemsBoundingBox(ItemsUnder(Some(nd)), built[1].time0, built[1].time1)
            /\ \A i \in 1..Len(ItemsUnder(Some(nd))) :
                  BoxContains(nd.bounding_box,
                              BoundingBoxOf(ItemsUnder(Some(nd))[i], built[1].time0,
                                            built[1].time1)[1])
            /\ nd.right = None =>
                  nd.bounding_box =
                      BoundingBoxOf(nd.left[1], built[1].time0, built[1].time1)[1]

\* A build over [0, 1] of three items, the sliding sphere among them, has
\* returned a tree with an inner node and a single-item node.
C21_Witness ==
    /\ BuiltTree
    /\ Len(built[1].items) = 3
    /\ built[1].time1 = F(1)
    /\ \E i \in 1..3 : built[1].items[i] = SlidingSphere
    /\ Cardinality(BuiltNodes) = 3
    /\ \E nd \in BuiltNodes : nd.right = None

----------------------------------------------------------------------------
(* Bvh::build on longer lists: depths, metrics, the items stored *)

\* The longest list of the builds below.
MaxLeaves == 6

\* Two spheres side by side along x.
DepthItems == {SphereNew(IVec(x, 0, 0), F(1), "m1") : x \in {-2, 2}}

DepthScenes == UNION {[1..n -> DepthItems] : n \in 1..MaxLeaves}

\* Bvh::build on every list of DepthScenes.
DepthTable ==
    {[time0 |-> F(0), time1 |-> F(1), items |-> items,
      result |-> BvhBuild(F(0), F(1), items),
      calls |-> BuildInternalCalls(F(0), F(1), items)] : items \in DepthScenes}

\* Bvh::build(0.0, 1.0, items) is called on a list of spheres.
DepthBuildCall ==
    /\ built = None
    /\ \E e \in DepthTable : built' = Some(e)
    /\ UNCHANGED notBuild

NextDepth == DepthBuildCall

SpecDepth == Init /\ [][NextDepth]_vars

\* The depths at which the items under a child are stored, left to right;
\* the items of the root node are stored at depth 1.
RECURSIVE DepthsUnder(_, _)
DepthsUnder(child, depth) ==
    IF child = None THEN <<>>
    ELSE IF child[1].kind = "bvh"
    THEN DepthsUnder(child[1].left, depth + 1) \o DepthsUnder(child[1].right, depth + 1)
    ELSE <<depth>>

BuiltDepths == DepthsUnder(Some(built[1].result[1].bvh), 0)

RECURSIVE SeqSum(_)
SeqSum(q) == IF q = <<>> THEN 0 ELSE q[1] + SeqSum(Tail(q))

SeqMin(q) == CHOOSE x \in {q[i] : i \in 1..Len(q)} : \A i \in 1..Len(q) : x <= q[i]

SeqMax(q) == CHOOSE x \in {q[i] : i \in 1..Len(q)} : \A i \in 1..Len(q) : x >= q[i]

\* What does hold of the metrics: the number of items and the least and the
\* greatest depth of an item.
MetricsCountAndRange ==
    BuiltTree =>
        /\ built[1].result[1].metrics.num_objects = Len(built[1].items)
        /\ built[1].result[1].metrics.min_depth = SeqMin(BuiltDepths)
        /\ built[1].result[1].metrics.max_depth = SeqMax(BuiltDepths)

\* C26: the metrics of Bvh::build over n >= 1 items report num_objects = n,
\* min_depth and max_depth the least and the greatest depth at which an item
\* is stored, and average_depth the arithmetic mean of the n items' depths.
C26_BuildMetrics ==
    BuiltTree =>
        /\ MetricsCountAndRange
        /\ built[1].result[1].metrics.average_depth =
              Q(SeqSum(BuiltDepths), Len(built[1].items))

\* The number of times item x occurs in the sequence q.
Occurrences(q, x) == Cardinality({i \in 1..Len(q) : q[i] = x})

\* C28: the tree Bvh::build returns for n >= 1 items stores every input
\* item in exactly one slot, none dropped and none duplicated, so it stores
\* n items; a single-item node has its item on the left and no right child.
C28_ItemsPreserved ==
    BuiltTree =>
        /\ Len(ItemsUnder(Some(built[1].result[1].bvh))) = Len(built[1].items)
        /\ \A i \in 1..Len(built[1].items) :
              Occurrences(ItemsUnder(Some(built[1].result[1].bvh)), built[1].items[i]) =
              Occurrences(built[1].items, built[1].items[i])
        /\ \A nd \in BuiltNodes :
              /\ nd.left # None
              /\ Len(ItemsUnder(Some(nd))) = 1 => nd.right = None

\* A build over five items, one of them given three times, has returned a
\* tree with a single-item node.
C28_Witness ==
    /\ BuiltTree
    /\ Len(built[1].items) = 5
    /\ \E i \in 1..5 : Occurrences(built[1].items, built[1].items[i]) = 3
    /\ \E nd \in BuiltNodes : nd.right = None

\* The least k with 2^k >= n.
RECURSIVE CeilLog2(_)
CeilLog2(n) == IF n <= 1 THEN 0 ELSE 1 + CeilLog2((n + 1) \div 2)

\* C29: in the tree Bvh::build returns for n >= 1 items the depths of the
\* stored items differ by at most one, and the greatest is at most
\* ceil(log2(n)) for n >= 2 and 1 for n = 1.
C29_Balanced ==
    BuiltTree =>
        /\ SeqMax(BuiltDepths) - SeqMin(BuiltDepths) <= 1
        /\ built[1].result[1].metrics.max_depth - built[1].result[1].metrics.min_depth <= 1
        /\ SeqMax(BuiltDepths) <=
              (IF Len(built[1].items) = 1 THEN 1 ELSE CeilLog2(Len(built[1].items)))

\* A build over five items has stored items at depth 2 and at depth 3.
C29_Witness ==
    /\ BuiltTree
    /\ Len(built[1].items) = 5
    /\ SeqMin(BuiltDepths) = 2
    /\ SeqMax(BuiltDepths) = 3

----------------------------------------------------------------------------
(* render_scene: the camera coordinates of a pixel's samples *)

\* The largest image_width and image_height of the samples below.
MaxExtent == 4

\* Values of random(), which draws from [0, 1).
CoordJitters == {F(0), Q(1, 2), Q(9, 10)}

\* One sample of the closure of pixel (i, j): the coordinates handed to
\* Camera::get_ray.
CoordSample ==
    /\ call = None
    /\ \E image_width \in 2..MaxExtent, image_height \in 2..MaxExtent :
         \E i \in 0..(image_width - 1), j \in 0..(image_height - 1),
            ju \in CoordJitters, jv \in CoordJitters :
            call' = Some([fn |-> "sample", image_width |-> image_width,
                          image_height |-> image_height, pixel |-> <<i, j>>,
                          u |-> CameraCoord(i, ju, image_width),
                          v |-> CameraCoord(j, jv, image_height)])
    /\ UNCHANGED notCall

NextCoord == CoordSample

SpecCoord == Init /\ [][NextCoord]_vars

InUnitInterval(x) == FGe(x, F(0)) /\ FLt(x, F(1))

\* C24: for every pixel of an image of width and height >= 2 and every
\* draw of random(), the coordinates (u, v) handed to Camera::get_ray
\* satisfy 0 <= u < 1 and 0 <= v < 1.
C24_CoordsNormalized ==
    call # None => (InUnitInterval(call[1].u) /\ InUnitInterval(call[1].v))

\* What does hold: the coordinates are in [0, 1) except in the last column
\* and in the last row, where they are in [1, 1 + 1/(extent - 1)).
CoordsBelowOneBeforeLast ==
    call # None =>
        /\ IF call[1].pixel[1] < call[1].image_width - 1 THEN InUnitInterval(call[1].u)
           ELSE /\ FGe(call[1].u, F(1))
                /\ FLt(call[1].u, FAdd(F(1), Q(1, call[1].image_width - 1)))
        /\ IF call[1].pixel[2] < call[1].image_height - 1 THEN InUnitInterval(call[1].v)
           ELSE /\ FGe(call[1].v, F(1))
                /\ FLt(call[1].v, FAdd(F(1), Q(1, call[1].image_height - 1)))

----------------------------------------------------------------------------
(* RGB::from_integers *)

\* RGB::from_integers: Some(colour), or None where the assertion fails.
FromIntegers(r, g, b) ==
    IF r < 256 \/ g < 256 \/ b < 256
    THEN Some(RGB(Q(r, 255), Q(g, 255), Q(b, 255)))
    ELSE None

\* Channel values on both sides of 256.
Channels == {0, 1, 128, 255, 256, 300}

FromIntegersCall ==
    /\ call = None
    /\ \E r \in Channels, g \in Channels, b \in Channels :
         call' = Some([fn |-> "from_integers", r |-> r, g |-> g, b |-> b,
                       result |-> FromIntegers(r, g, b)])
    /\ UNCHANGED notCall

NextRgb == FromIntegersCall

SpecRgb == Init /\ [][NextRgb]_vars

\* C27: RGB::from_integers(r, g, b) fails its assertion whenever one of r,
\* g, b is >= 256, and otherwise returns (r/255, g/255, b/255).
C27_FromIntegersRange ==
    call # None =>
        IF call[1].r >= 256 \/ call[1].g >= 256 \/ call[1].b >= 256
        THEN call[1].result = None
        ELSE call[1].result =
                 Some(RGB(Q(call[1].r, 255), Q(call[1].g, 255), Q(call[1].b, 255)))

\* What does hold: the assertion fails only when all of r, g, b are >= 256.
FromIntegersFailsOnAllThree ==
    call # None =>
        IF call[1].r >= 256 /\ call[1].g >= 256 /\ call[1].b >= 256
        THEN call[1].result = None
        ELSE call[1].result =
                 Some(RGB(Q(call[1].r, 255), Q(call[1].g, 255), Q(call[1].b, 255)))

----------------------------------------------------------------------------
(* Translate *)

\* Translate::new
TranslateNew(offset, object) == [kind |-> "translate", offset |-> offset, object |-> object]

\* The ray Translate::hit hands to the wrapped object.
MovedRay(offset, ray) == RayNew(VSub(ray.origin, offset), ray.direction, ray.time)

\* The record Translate::hit makes of the wrapped object's record hr.
TranslateRecord(offset, moved_ray, hr) ==
    HitRecordNew(VAdd(hr.point, offset), GetFaceNormal(moved_ray, hr.normal).normal,
                 hr.material, hr.t, hr.u, hr.v,
                 GetFaceNormal(moved_ray, hr.normal).front_face)

\* impl Hittable for Translate: hit
TranslateHit(tr, ray, t_min, t_max) ==
    IF Hit(tr.object, MovedRay(tr.offset, ray), t_min, t_max) = None THEN None
    ELSE Some(TranslateRecord(tr.offset, MovedRay(tr.offset, ray),
                              Hit(tr.object, MovedRay(tr.offset, ray), t_min, t_max)[1]))

\* The wrapped objects: a sphere, a rectangle and a triangle.
WrappedObjects ==
    {SphereNew(IVec(0, 0, 0), F(1), "m1"),
     RectangleNew("xy", F(-1), F(1), F(-1), F(1), F(2), "m2"),
     SlantedTriangle}

TranslateOffsets == {IVec(0, 0, 0), IVec(2, 0, 0), IVec(0, -1, 1)}

\* Origins of the moved ray: inside the sphere, on both sides of the
\* rectangle (none in its plane z = 2), and outside.
MovedOrigins == {IVec(x, 0, z) : x \in {-3, 0, 1}, z \in {-3, 0, 1, 3}}

TranslateDirections ==
    {IVec(0, 0, 1), IVec(0, 0, -1), IVec(1, 0, 0), IVec(-1, 0, 0), IVec(0, 1, 0)}

\* One call of Translate::hit.
TranslateHitCall ==
    /\ call = None
    /\ \E object \in WrappedObjects, offset \in TranslateOffsets, o \in MovedOrigins,
          d \in TranslateDirections, w \in BvhWindows :
         /\ SceneExact(<<object>>, Ray(o, d))
         /\ call' = Some([fn |-> "translate_hit", object |-> object, offset |-> offset,
                          ray |-> Ray(VAdd(o, offset), d),
                          t_min |-> w[1], t_max |-> w[2],
                          result |-> TranslateHit(TranslateNew(offset, object),
                                                  Ray(VAdd(o, offset), d), w[1], w[2])])
    /\ UNCHANGED notCall

NextTranslate == TranslateHitCall

SpecTranslate == Init /\ [][NextTranslate]_vars

\* The wrapped object's own answer on the ray with its origin shifted by
\* -offset.
WrappedAnswer ==
    Hit(call[1].object,
        RayNew(VSub(call[1].ray.origin, call[1].offset), call[1].ray.direction,
               call[1].ray.time),
        call[1].t_min, call[1].t_max)

\* The translated record agrees with the wrapped one but for the point and
\* the fields listed in `except`.
SameRecordExcept(except) ==
    /\ call[1].result[1].point = VAdd(WrappedAnswer[1].point, call[1].offset)
    /\ call[1].result[1].t = WrappedAnswer[1].t
    /\ call[1].result[1].u = WrappedAnswer[1].u
    /\ call[1].result[1].v = WrappedAnswer[1].v
    /\ call[1].result[1].material = WrappedAnswer[1].material
    /\ "normal" \notin except => call[1].result[1].normal = WrappedAnswer[1].normal
    /\ "front_face" \notin except =>
           call[1].result[1].front_face = WrappedAnswer[1].front_face

\* C30: Translate::hit returns a hit exactly when the wrapped object's hit
\* on the shifted ray does, with the same t, u, v, material, normal and
\* front_face and the point shifted by +offset; a surface struck from its
\* back side still reports front_face = false.
C30_TranslateTransparent ==
    call # None =>
        /\ (call[1].result = None) <=> (WrappedAnswer = None)
        /\ call[1].result # None => SameRecordExcept({})

\* What does hold: the hit, its point, t, u, v and material are as claimed;
\* front_face is true and the normal is the wrapped record's whenever the
\* ray is not perpendicular to the normal.
TranslateFrontFaceAlways ==
    call # None =>
        /\ (call[1].result = None) <=> (WrappedAnswer = None)
        /\ call[1].result # None =>
              /\ SameRecordExcept({"normal", "front_face"})
              /\ Dot(call[1].ray.direction, WrappedAnswer[1].normal) # F(0) =>
                    /\ call[1].result[1].front_face
                    /\ call[1].result[1].normal = WrappedAnswer[1].normal

----------------------------------------------------------------------------
(* ConstantMedium *)

\* BoxObj::new: the six sides, a HittableList; BoxObj::hit is the list's hit.
BoxObjNew(box_min, box_max, material) ==
    HittableListBuild(F(0), F(0),
        <<RectangleNew("xy", box_min[1], box_max[1], box_min[2], box_max[2], box_min[3],
                       material),
          RectangleNew("xy", box_min[1], box_max[1], box_min[2], box_max[2], box_max[3],
                       material),
          RectangleNew("xz", box_min[1], box_max[1], box_min[3], box_max[3], box_min[2],
                       material),
          RectangleNew("xz", box_min[1], box_max[1], box_min[3], box_max[3], box_max[2],
                       material),
          RectangleNew("yz", box_min[2], box_max[2], box_min[3], box_max[3], box_min[1],
                       material),
          RectangleNew("yz", box_min[2], box_max[2], box_min[3], box_max[3], box_max[1],
                       material)>>)

\* ConstantMedium::new
ConstantMediumNew(boundary, texture, density) ==
    [kind |-> "constant_medium", boundary |-> boundary,
     phase_function |-> [kind |-> "isotropic", albedo |-> texture],
     neg_inv_density |-> FDiv(F(-1), density)]

\* The end of ConstantMedium::hit, from the clipped parameters t1 and t2 (t1
\* raised to 0), the ray's length and the sampled distance.
MediumSample(m, ray, t1, t2, ray_length, hit_distance) ==
    IF FGt(hit_distance, FMul(FSub(t2, t1), ray_length)) THEN None
    ELSE Some(HitRecordNew(At(ray, FAdd(t1, FDiv(hit_distance, ray_length))),
                           IVec(1, 0, 0), m.phase_function,
                           FAdd(t1, FDiv(hit_distance, ray_length)),
                           F(0), F(0), TRUE))

\* ConstantMedium::hit after the two boundary hits: t1 and t2 are hr1.t and
\* hr2.t clipped to t_min and t_max.
MediumClipped(m, ray, t1, t2, ln_random) ==
    IF FGe(t1, t2) THEN None
    ELSE MediumSample(m, ray, IF FLt(t1, F(0)) THEN F(0) ELSE t1, t2,
                      VLen(ray.direction), FMul(m.neg_inv_density, ln_random))

\* ConstantMedium::hit; ln_random is the value of random().ln().
ConstantMediumHit(m, ray, t_min, t_max, ln_random) ==
    IF Hit(m.boundary, ray, NInf, PInf) = None THEN None
    ELSE IF Hit(m.boundary, ray,
                FAdd(Hit(m.boundary, ray, NInf, PInf)[1].t, Q(1, 10000)), PInf) = None
    THEN None
    ELSE MediumClipped(m, ray,
             IF FLt(Hit(m.boundary, ray, NInf, PInf)[1].t, t_min) THEN t_min
             ELSE Hit(m.boundary, ray, NInf, PInf)[1].t,
             IF FGt(Hit(m.boundary, ray,
                        FAdd(Hit(m.boundary, ray, NInf, PInf)[1].t, Q(1, 10000)),
                        PInf)[1].t, t_max)
             THEN t_max
             ELSE Hit(m.boundary, ray,
                      FAdd(Hit(m.boundary, ray, NInf, PInf)[1].t, Q(1, 10000)), PInf)[1].t,
             ln_random)

\* The media: a ball and a box of smoke, thin and dense.
Boundaries ==
    {SphereNew(IVec(0, 0, 0), F(1), "m1"),
     BoxObjNew(IVec(-1, -1, -1), IVec(1, 1, 1), "m1")}

Densities == {Q(1, 2), F(2)}

\* Values of random().ln(): random() draws from [0, 1).
LnRandoms == {NInf, F(-3), F(-1), Q(-1, 4)}

\* Origins before, inside and behind the boundary, and in the plane of the
\* box's top.
MediumOrigins == {IVec(0, y, z) : y \in {0, 1}, z \in {-3, 0, 3}}

MediumDirections == {IVec(0, 0, 1), IVec(0, 0, -2), IVec(0, -1, 0), IVec(0, 0, -1)}

MediumWindows == {<<Q(1, 1000), F64Max>>, <<F(0), F(3)>>, <<F(-5), F(5)>>}

\* One call of ConstantMedium::hit.
MediumHitCall ==
    /\ call = None
    /\ \E boundary \in Boundaries, density \in Densities, o \in MediumOrigins,
          d \in MediumDirections, w \in MediumWindows, ln_random \in LnRandoms :
         /\ SceneExact(<<boundary>>, Ray(o, d))
         /\ call' = Some([fn |-> "medium_hit",
                          medium |-> ConstantMediumNew(boundary, "smoke", density),
                          ray |-> Ray(o, d), t_min |-> w[1], t_max |-> w[2],
                          ln_random |-> ln_random,
                          result |-> ConstantMediumHit(
                                         ConstantMediumNew(boundary, "smoke", density),
                                         Ray(o, d), w[1], w[2], ln_random)])
    /\ UNCHANGED notCall

NextMedium == MediumHitCall

SpecMedium == Init /\ [][NextMedium]_vars

\* The boundary's first hit along the whole ray, and its next hit beyond it.
EntryHit == Hit(call[1].medium.boundary, call[1].ray, NInf, PInf)

ExitHit == Hit(call[1].medium.boundary, call[1].ray, FAdd(EntryHit[1].t, Q(1, 10000)), PInf)

\* The entry clipped to t_min and to 0, the exit clipped to t_max.
ClippedEntry == Max(Max(EntryHit[1].t, call[1].t_min), F(0))

ClippedExit == Min(ExitHit[1].t, call[1].t_max)

\* The sampled free-flight distance.
HitDistance == FMul(call[1].medium.neg_inv_density, call[1].ln_random)

\* C25: ConstantMedium::hit returns a hit only if the boundary reports an
\* entry and an exit beyond entry + 0.0001, the interval clipped to
\* [t_min, t_max] and to t >= 0 is not empty and the sampled distance does
\* not exceed the ray's length inside the boundary; the returned t is
\* between the clipped entry and exit, hence in [t_min, t_max], and the
\* record carries normal (1,0,0), u = 0, v = 0 and front_face = true.
C25_MediumHit ==
    (call # None /\ call[1].result # None) =>
        /\ EntryHit # None
        /\ ExitHit # None
        /\ FGe(ExitHit[1].t, FAdd(EntryHit[1].t, Q(1, 10000)))
        /\ FLt(ClippedEntry, ClippedExit)
        /\ FLe(HitDistance,
               FMul(FSub(ClippedExit, ClippedEntry), VLen(call[1].ray.direction)))
        /\ FLe(ClippedEntry, call[1].result[1].t)
        /\ FLe(call[1].result[1].t, ClippedExit)
        /\ FLe(call[1].t_min, call[1].result[1].t)
        /\ FLe(call[1].result[1].t, call[1].t_max)
        /\ call[1].result[1].normal = IVec(1, 0, 0)
        /\ call[1].result[1].u = F(0)
        /\ call[1].result[1].v = F(0)
        /\ call[1].result[1].front_face

\* The same for the calls on which the boundary answers no hit with a NaN t.
MediumHitWithoutNaN ==
    (/\ call # None
     /\ EntryHit # None => ~IsNaN(EntryHit[1].t)
     /\ (EntryHit # None /\ ExitHit # None) => ~IsNaN(ExitHit[1].t))
    => C25_MediumHit

\* A ray that starts inside the ball was answered with a hit between 0 and
\* the exit.
HitFromInsideReached ==
    /\ call # None
    /\ call[1].result # None
    /\ call[1].medium.boundary.kind = "sphere"
    /\ FLt(EntryHit[1].t, F(0))
    /\ FGt(call[1].result[1].t, F(0))
    /\ FLt(call[1].result[1].t, ExitHit[1].t)

====
